---- MODULE Spec2Model ----
(***************************************************************************)
(* A model of the fireflies-to-obsidian synchroniser:                      *)
(*   - the Ledger (src/src/state_manager.py, class StateManager): a JSON   *)
(*     file holding the processed meeting ids, last_sync and metadata;     *)
(*   - the readiness gate of the Source Client                             *)
(*     (src/src/fireflies_client.py, is_summary_ready and                  *)
(*     get_meeting_with_summary_check);                                    *)
(*   - the Sync Orchestrator (src/src/main.py, process_meetings) with the  *)
(*     Note Writer's create_meeting_note (src/src/obsidian_sync.py);       *)
(*   - the Note Writer's file naming (get_unique_filename, save_meeting);  *)
(*   - the Source Client's request loop, listing and batch fetch           *)
(*     (_make_request, get_all_transcripts_since, get_recent_meetings,     *)
(*     get_transcript_details_batch);                                      *)
(*   - the sync-now trigger (src/src/signal_handler.py) in                 *)
(*     run_polling_loop.                                                   *)
(* The specifications share the variables: SpecLedger / SpecLedgerFaults   *)
(* drive the StateManager API, SpecReady applies the readiness gate to     *)
(* provider payloads, Spec drives runs of process_meetings, SpecVault the  *)
(* Note Writer, SpecRequest, SpecPaging, SpecDiscovery and SpecBatch the   *)
(* Source Client, SpecPoll the polling loop.                               *)
(***************************************************************************)
EXTENDS Integers, Sequences, FiniteSets, TLC

VARIABLES
    file,        \* the ledger file on disk (state_manager.state_file)
    instances,   \* the StateManager objects that are alive in the process
    ret,         \* the last StateManager call and what it returned
    acked,       \* history: ids whose mark call returned after a successful save
    ackedMeta,   \* history: per key, the value of the last successful set_metadata
    restarts,    \* history: number of process restarts
    ackedAt,     \* history: per id, the restart count when it was acknowledged
    tracking,    \* whether the history variables are kept (fixed by Init)
    rq,          \* readiness gate: what get_meeting produces for the request
    rs,          \* readiness gate: what get_meeting_with_summary_check returned
    vault,       \* per meeting id, the number of note files written for it
    pc,          \* where process_meetings is: idle, gate, persist, mark
    mode,        \* normal (discovery) or targeted (meeting_ids given)
    cands,       \* the candidates of the run: meetings_list or meeting_ids
    ci,          \* index of the candidate the gate loop examines next
    meetings,    \* the ready meetings queued for note creation
    mj,          \* index of the queued meeting the second loop handles next
    processed_count,
    error_count,
    skipped_count,
    glog,        \* history: one entry per candidate the gate loop examined
    clog,        \* history: one entry per create_meeting_note call of the run
    runs,        \* number of runs started
    last,        \* how the last run ended and the counts it reported
    folder,      \* the vault's Fireflies folder: per existing file name, its content
    saved,       \* the last Note Writer call and what it returned
    req,         \* one _make_request call: attempt, HTTP posts, sleeps, result
    pg,          \* one get_all_transcripts_since call: cursor, pages, items
    disc,        \* one normal-mode discovery: meetings held, listed, considered
    bt,          \* one get_transcript_details_batch call: the tasks and the result
    pl           \* run_polling_loop: position, pending-sync flag, runs made

ledgerVars == <<file, instances, ret, acked, ackedMeta, restarts, ackedAt, tracking>>
readyVars == <<rq, rs>>
runVars == <<vault, pc, mode, cands, ci, meetings, mj, processed_count, error_count,
             skipped_count, glog, clog, runs, last>>
clientVars == <<folder, saved, req, pg, disc, bt, pl>>

(***************************************************************************)
(* Bounds of the model.                                                    *)
(***************************************************************************)
MaxRestarts == 1
MaxRuns == 2
MaxCand == 3

IDS == {"m1", "m2", "m3"}
SMS == {"sm1", "sm2"}
Keys == {"last_poll_time", "k"}
Values == {"v1", "v2"}
Unset == "UNSET"
Raised == "RAISED"
NoneValue == "None"

(***************************************************************************)
(* Helpers on sequences.                                                   *)
(***************************************************************************)
Range(s) == {s[k] : k \in DOMAIN s}

Count(s, x) == Cardinality({k \in DOMAIN s : s[k] = x})

NoDup(s) == \A a, b \in DOMAIN s : s[a] = s[b] => a = b

\* every listing of a finite set as a duplicate-free sequence
Orderings(S) ==
    {s \in [1..Cardinality(S) -> S] : Range(s) = S}

(***************************************************************************)
(* The ledger file.  kind is what a reader finds:                          *)
(*   "ok"          a JSON object {processed_meetings, last_sync, metadata} *)
(*   "absent"      no file                                                 *)
(*   "badjson"     text that is not JSON (json.JSONDecodeError), which a   *)
(*                 truncated or empty file is                              *)
(*   "undecodable" bytes that are not text (UnicodeDecodeError)            *)
(*   "nonobject"   valid JSON that is not an object (a list, null)         *)
(***************************************************************************)
FileKinds == {"ok", "absent", "badjson", "undecodable", "nonobject"}

EmptyMeta == [k \in Keys |-> Unset]

\* the dict literal of _initialize_empty_state, _load_state and clear_state
EmptyState == [processed_meetings |-> <<>>, last_sync |-> "null", metadata |-> EmptyMeta]

FileOf(kind, st) == [kind |-> kind, data |-> st]

EmptyFile == FileOf("ok", EmptyState)

AbsentFile == FileOf("absent", EmptyState)

\* the ids a reader of the raw file finds in it
Persisted == IF file.kind = "ok" THEN Range(file.data.processed_meetings) ELSE {}

\* outcomes of opening the file for reading / of writing it
ReadOutcomes == {"ok", "ioerror"}
WriteOutcomes == {"ok", "denied", "partial"}

(***************************************************************************)
(* StateManager (src/src/state_manager.py).  Every method re-reads the     *)
(* file; an object holds no copy of the state.  rd and wr are what the     *)
(* operating system answers to the open-for-read and to the write of the   *)
(* call.  An operator returns the file after the call with its result.     *)
(***************************************************************************)

\* open(self.state_file, 'w') followed by json.dump: a refused open leaves the
\* file alone, a write that fails after the open leaves a truncated file
WriteFile(f, st, wr) ==
    CASE wr = "ok" -> FileOf("ok", st)
      [] wr = "denied" -> f
      [] OTHER -> FileOf("badjson", EmptyState)

\* _initialize_empty_state: IOError is caught and logged
_initialize_empty_state(f, wr) == WriteFile(f, EmptyState, wr)

\* _load_state: exc is an exception that leaves the method, isdict tells whether
\* json.load produced an object, writes counts the calls of
\* _initialize_empty_state
_load_state(f, rd, wr) ==
    CASE f.kind = "absent" ->
            [file |-> _initialize_empty_state(f, wr), exc |-> FALSE,
             isdict |-> TRUE, data |-> EmptyState, writes |-> 1]
      [] f.kind # "absent" /\ rd = "ioerror" ->
            [file |-> f, exc |-> FALSE, isdict |-> TRUE, data |-> EmptyState, writes |-> 0]
      [] f.kind = "badjson" /\ rd = "ok" ->
            [file |-> f, exc |-> FALSE, isdict |-> TRUE, data |-> EmptyState, writes |-> 0]
      [] f.kind = "undecodable" /\ rd = "ok" ->
            [file |-> f, exc |-> TRUE, isdict |-> TRUE, data |-> EmptyState, writes |-> 0]
      [] f.kind = "nonobject" /\ rd = "ok" ->
            [file |-> f, exc |-> FALSE, isdict |-> FALSE, data |-> EmptyState, writes |-> 0]
      [] OTHER ->
            [file |-> f, exc |-> FALSE, isdict |-> TRUE, data |-> f.data, writes |-> 0]

\* what a method does with the loaded value fails when the load raised or the
\* value has no .get
Unusable(L) == L.exc \/ ~L.isdict

\* _save_state: stamps last_sync, then writes; IOError is caught and logged
_save_state(f, st, wr) == WriteFile(f, [st EXCEPT !.last_sync = "ts"], wr)

BoolStr(b) == IF b THEN "True" ELSE "False"

\* what a call leaves and answers: the file, whether it raised, the value
\* returned, total_processed (n) and the number of times it wrote the file
Result(f, raised, value, n, writes) ==
    [file |-> f, raised |-> raised, value |-> value, n |-> n, writes |-> writes]

\* is_processed
is_processed(f, id, rd, wr) ==
    LET L == _load_state(f, rd, wr) IN
    IF Unusable(L) THEN Result(L.file, TRUE, Raised, 0, L.writes)
    ELSE Result(L.file, FALSE, BoolStr(id \in Range(L.data.processed_meetings)), 0,
                L.writes)

\* mark_processed without the membership test
mark_processed_always_append(f, id, rd, wr) ==
    LET L == _load_state(f, rd, wr) IN
    IF Unusable(L) THEN Result(L.file, TRUE, Raised, 0, L.writes)
    ELSE Result(_save_state(L.file,
                   [L.data EXCEPT !.processed_meetings = Append(@, id)], wr),
                FALSE, NoneValue, 0, L.writes + 1)

\* mark_processed that changes the loaded state and does not save it
mark_processed_no_save(f, id, rd, wr) ==
    LET L == _load_state(f, rd, wr) IN
    IF Unusable(L) THEN Result(L.file, TRUE, Raised, 0, L.writes)
    ELSE Result(L.file, FALSE, NoneValue, 0, L.writes)

\* mark_processed that lets the failure of its write out
mark_processed_write_raises(f, id, rd, wr) ==
    LET L == _load_state(f, rd, wr) IN
    IF Unusable(L) THEN Result(L.file, TRUE, Raised, 0, L.writes)
    ELSE IF id \notin Range(L.data.processed_meetings)
         THEN Result(_save_state(L.file,
                        [L.data EXCEPT !.processed_meetings = Append(@, id)], wr),
                     wr # "ok", NoneValue, 0, L.writes + 1)
         ELSE Result(L.file, FALSE, NoneValue, 0, L.writes)

\* mark_processed
mark_processed(f, id, rd, wr) ==
    LET L == _load_state(f, rd, wr) IN
    IF Unusable(L) THEN Result(L.file, TRUE, Raised, 0, L.writes)
    ELSE IF id \notin Range(L.data.processed_meetings)
         THEN Result(_save_state(L.file,
                        [L.data EXCEPT !.processed_meetings = Append(@, id)], wr),
                     FALSE, NoneValue, 0, L.writes + 1)
         ELSE Result(L.file, FALSE, NoneValue, 0, L.writes)

\* a batch variant that saves once for each new id
mark_multiple_processed_save_each(f, ids, order, rd, wr) ==
    LET L == _load_state(f, rd, wr) IN
    IF Unusable(L) THEN Result(L.file, TRUE, Raised, 0, L.writes)
    ELSE LET processed_meetings == Range(L.data.processed_meetings)
             new_meetings == ids \ processed_meetings
         IN  IF new_meetings # {}
             THEN Result(_save_state(L.file,
                            [L.data EXCEPT !.processed_meetings = order], wr),
                         FALSE, NoneValue, 0, L.writes + Cardinality(new_meetings))
             ELSE Result(L.file, FALSE, NoneValue, 0, L.writes)

\* mark_multiple_processed: list(set(...)) lists the union in an order of its
\* own choosing, order being one of Orderings(union)
mark_multiple_processed(f, ids, order, rd, wr) ==
    LET L == _load_state(f, rd, wr) IN
    IF Unusable(L) THEN Result(L.file, TRUE, Raised, 0, L.writes)
    ELSE LET processed_meetings == Range(L.data.processed_meetings)
             new_meetings == ids \ processed_meetings
         IN  IF new_meetings # {}
             THEN Result(_save_state(L.file,
                            [L.data EXCEPT !.processed_meetings = order], wr),
                         FALSE, NoneValue, 0, L.writes + 1)
             ELSE Result(L.file, FALSE, NoneValue, 0, L.writes)

\* set_metadata that stores a fresh map holding the one key
set_metadata_fresh_map(f, key, value, rd, wr) ==
    LET L == _load_state(f, rd, wr) IN
    IF Unusable(L) THEN Result(L.file, TRUE, Raised, 0, L.writes)
    ELSE Result(_save_state(L.file,
                   [L.data EXCEPT !.metadata = [EmptyMeta EXCEPT ![key] = value]], wr),
                FALSE, NoneValue, 0, L.writes + 1)

\* set_metadata
set_metadata(f, key, value, rd, wr) ==
    LET L == _load_state(f, rd, wr) IN
    IF Unusable(L) THEN Result(L.file, TRUE, Raised, 0, L.writes)
    ELSE Result(_save_state(L.file, [L.data EXCEPT !.metadata[key] = value], wr),
                FALSE, NoneValue, 0, L.writes + 1)

\* get_metadata(key, default)
get_metadata(f, key, default, rd, wr) ==
    LET L == _load_state(f, rd, wr) IN
    IF Unusable(L) THEN Result(L.file, TRUE, Raised, 0, L.writes)
    ELSE Result(L.file, FALSE,
                IF L.data.metadata[key] = Unset THEN default ELSE L.data.metadata[key],
                0, L.writes)

\* get_last_sync_time that saves what it loaded
get_last_sync_time_saving(f, rd, wr) ==
    LET L == _load_state(f, rd, wr) IN
    IF Unusable(L) THEN Result(L.file, TRUE, Raised, 0, L.writes)
    ELSE Result(_save_state(L.file, L.data, wr), FALSE,
                IF L.data.last_sync = "null" THEN NoneValue ELSE L.data.last_sync,
                0, L.writes + 1)

\* get_last_sync_time
get_last_sync_time(f, rd, wr) ==
    LET L == _load_state(f, rd, wr) IN
    IF Unusable(L) THEN Result(L.file, TRUE, Raised, 0, L.writes)
    ELSE Result(L.file, FALSE,
                IF L.data.last_sync = "null" THEN NoneValue ELSE L.data.last_sync,
                0, L.writes)

\* get_stats: loads, counts, then calls get_last_sync_time (a second load)
get_stats(f, rd, wr) ==
    LET L == _load_state(f, rd, wr) IN
    IF Unusable(L) THEN Result(L.file, TRUE, Raised, 0, L.writes)
    ELSE LET T == get_last_sync_time(L.file, rd, wr) IN
         Result(T.file, T.raised, T.value, Len(L.data.processed_meetings),
                L.writes + T.writes)

\* clear_state: no load; _save_state stamps last_sync on the empty state
clear_state(f, wr) == Result(_save_state(f, EmptyState, wr), FALSE, NoneValue, 0, 1)

\* StateManager.__init__: the file is created when it does not exist
StateManager_init(f, wr) ==
    IF f.kind = "absent" THEN _initialize_empty_state(f, wr) ELSE f

(***************************************************************************)
(* The StateManager API as actions, each made on a live object sm.  ret    *)
(* records the call: op, its argument (arg, or ids for the batch), whether *)
(* it raised, the value returned, total_processed (n), and what the call   *)
(* met: the file kind before it (pre), the read and write outcomes, and    *)
(* whether arg was among the persisted ids before it (present).            *)
(***************************************************************************)
Call(op, sm, arg, ids, R, rd, wr) ==
    [op |-> op, arg |-> arg, ids |-> ids, raised |-> R.raised,
     value |-> R.value, n |-> R.n, pre |-> file.kind, rd |-> rd, wr |-> wr,
     present |-> arg \in Persisted]

NoCall ==
    [op |-> "none", arg |-> "none", ids |-> {}, raised |-> FALSE,
     value |-> NoneValue, n |-> 0, pre |-> "absent", rd |-> "ok", wr |-> "ok",
     present |-> FALSE]

EnvCall(op) == [NoCall EXCEPT !.op = op, !.pre = file.kind]

\* a mark call is acknowledged when it returned and its write went through
Acknowledged(R, wr) == tracking /\ ~R.raised /\ wr = "ok"

NoAck == [id \in IDS |-> -1]

\* StateManager(state_file_path)
New(sm, wr) ==
    /\ sm \notin instances
    /\ instances' = instances \cup {sm}
    /\ file' = StateManager_init(file, wr)
    /\ ret' = [EnvCall("init") EXCEPT !.wr = wr]
    /\ UNCHANGED <<clientVars, acked, ackedMeta, restarts, ackedAt, tracking, readyVars, runVars>>

\* the process exits and a new one starts: every object is gone, the file stays
Restart ==
    /\ instances # {}
    /\ tracking => restarts < MaxRestarts
    /\ instances' = {}
    /\ restarts' = IF tracking THEN restarts + 1 ELSE restarts
    /\ ret' = EnvCall("restart")
    /\ UNCHANGED <<clientVars, file, acked, ackedMeta, ackedAt, tracking, readyVars, runVars>>

IsProcessed(sm, id, rd, wr) ==
    /\ sm \in instances
    /\ LET R == is_processed(file, id, rd, wr) IN
        /\ file' = R.file
        /\ ret' = Call("is_processed", sm, id, {}, R, rd, wr)
    /\ UNCHANGED <<clientVars, instances, acked, ackedMeta, restarts, ackedAt, tracking, readyVars, runVars>>

MarkProcessed(sm, id, rd, wr) ==
    /\ sm \in instances
    /\ LET R == mark_processed(file, id, rd, wr) IN
        /\ file' = R.file
        /\ ret' = Call("mark_processed", sm, id, {}, R, rd, wr)
        /\ acked' = IF Acknowledged(R, wr) THEN acked \cup {id} ELSE acked
        /\ ackedAt' = IF Acknowledged(R, wr) /\ id \notin acked
                      THEN [ackedAt EXCEPT ![id] = restarts] ELSE ackedAt
    /\ UNCHANGED <<clientVars, instances, ackedMeta, restarts, tracking, readyVars, runVars>>

MarkMultipleProcessed(sm, ids, rd, wr) ==
    /\ sm \in instances
    /\ \E order \in Orderings(Persisted \cup ids) :
        LET R == mark_multiple_processed(file, ids, order, rd, wr) IN
        /\ file' = R.file
        /\ ret' = Call("mark_multiple_processed", sm, "none", ids, R, rd, wr)
        /\ acked' = IF Acknowledged(R, wr) THEN acked \cup ids ELSE acked
        /\ ackedAt' = IF Acknowledged(R, wr)
                      THEN [id \in IDS |-> IF id \in ids \ acked THEN restarts
                                           ELSE ackedAt[id]]
                      ELSE ackedAt
    /\ UNCHANGED <<clientVars, instances, ackedMeta, restarts, tracking, readyVars, runVars>>

SetMetadata(sm, key, value, rd, wr) ==
    /\ sm \in instances
    /\ LET R == set_metadata(file, key, value, rd, wr) IN
        /\ file' = R.file
        /\ ret' = Call("set_metadata", sm, key, {}, R, rd, wr)
        /\ ackedMeta' = IF Acknowledged(R, wr)
                        THEN [ackedMeta EXCEPT ![key] = value] ELSE ackedMeta
    /\ UNCHANGED <<clientVars, instances, acked, restarts, ackedAt, tracking, readyVars, runVars>>

GetMetadata(sm, key, rd, wr) ==
    /\ sm \in instances
    /\ LET R == get_metadata(file, key, NoneValue, rd, wr) IN
        /\ file' = R.file
        /\ ret' = Call("get_metadata", sm, key, {}, R, rd, wr)
    /\ UNCHANGED <<clientVars, instances, acked, ackedMeta, restarts, ackedAt, tracking, readyVars, runVars>>

GetLastSyncTime(sm, rd, wr) ==
    /\ sm \in instances
    /\ LET R == get_last_sync_time(file, rd, wr) IN
        /\ file' = R.file
        /\ ret' = Call("get_last_sync_time", sm, "none", {}, R, rd, wr)
    /\ UNCHANGED <<clientVars, instances, acked, ackedMeta, restarts, ackedAt, tracking, readyVars, runVars>>

GetStats(sm, rd, wr) ==
    /\ sm \in instances
    /\ LET R == get_stats(file, rd, wr) IN
        /\ file' = R.file
        /\ ret' = Call("get_stats", sm, "none", {}, R, rd, wr)
    /\ UNCHANGED <<clientVars, instances, acked, ackedMeta, restarts, ackedAt, tracking, readyVars, runVars>>

ClearState(sm, wr) ==
    /\ sm \in instances
    /\ LET R == clear_state(file, wr) IN
        /\ file' = R.file
        /\ ret' = Call("clear_state", sm, "none", {}, R, "ok", wr)
        /\ acked' = IF Acknowledged(R, wr) THEN {} ELSE acked
        /\ ackedMeta' = IF Acknowledged(R, wr) THEN EmptyMeta ELSE ackedMeta
        /\ ackedAt' = IF Acknowledged(R, wr) THEN NoAck ELSE ackedAt
    /\ UNCHANGED <<clientVars, instances, restarts, tracking, readyVars, runVars>>

\* the environment damages the file: its bytes stop being JSON text, stop being
\* text, or are replaced by a JSON value that is no object
Corrupt(kind) ==
    /\ file.kind = "ok"
    /\ file' = FileOf(kind, EmptyState)
    /\ ret' = EnvCall("corrupt")
    /\ UNCHANGED <<clientVars, instances, acked, ackedMeta, restarts, ackedAt, tracking, readyVars, runVars>>

\* the environment removes the file
Remove ==
    /\ file.kind # "absent"
    /\ file' = AbsentFile
    /\ ret' = EnvCall("remove")
    /\ UNCHANGED <<clientVars, instances, acked, ackedMeta, restarts, ackedAt, tracking, readyVars, runVars>>

Outcome(kind, id, info, skind, status) ==
    [kind |-> kind, id |-> id, info |-> info, skind |-> skind, status |-> status]

\* no request made
NoOutcome == Outcome("pending", "none", "missing", "missing", "")

Answer(kind, id) == [kind |-> kind, id |-> id]

\* the answer is still to come
Pending == Answer("pending", "none")

vars == <<file, instances, ret, acked, ackedMeta, restarts, ackedAt, tracking, rq, rs,
          vault, pc, mode, cands, ci, meetings, mj, processed_count, error_count,
          skipped_count, glog, clog, runs, last, folder, saved, req, pg, disc, bt, pl>>

(***************************************************************************)
(* The Note Writer and the Source Client at rest.  Each is modelled by its *)
(* own variables and driven by its own specification; the others leave     *)
(* them as they are here.                                                  *)
(***************************************************************************)
\* a file name of the folder is the version appended to the base name:
\* 0 is 'name.md', n is 'name (n).md'
NoPath == 0 - 1

EmptyFolder == [n \in {} |-> ""]

\* the record of a Note Writer call: the folder before it, what it returned
Saved(op, pre, path, content, raised) ==
    [op |-> op, pre |-> pre, path |-> path, content |-> content, raised |-> raised]

NoSave == Saved("none", EmptyFolder, NoPath, "", FALSE)

IdleVault == folder = EmptyFolder /\ saved = NoSave

\* a _make_request call: attempt is the loop index, posts the HTTP attempts
\* made, sleeps the asyncio.sleep calls, reply the last provider answer
Request(rpc, max_retries, attempt, posts, sleeps, reply, result, error_code) ==
    [pc |-> rpc, max_retries |-> max_retries, attempt |-> attempt, posts |-> posts,
     sleeps |-> sleeps, reply |-> reply, result |-> result, error_code |-> error_code]

NoReply == [kind |-> "none", retry_after |-> "absent"]

NoRequest == Request("idle", 0, 0, 0, <<>>, NoReply, "pending", "none")

IdleRequest == req = NoRequest

\* a get_all_transcripts_since call: sizes are the lengths of the pages
\* received, skips the skip arguments of the requests made, all_transcripts the
\* list built so far, an item being its position in the provider's listing
Paging(ppc, batch_size, skip, requests, sizes, total, skips, all_transcripts) ==
    [pc |-> ppc, batch_size |-> batch_size, skip |-> skip, requests |-> requests,
     sizes |-> sizes, total |-> total, skips |-> skips,
     all_transcripts |-> all_transcripts]

NoPaging == Paging("idle", 0, 0, 0, <<>>, 0, <<>>, <<>>)

IdlePaging == pg = NoPaging

\* a normal-mode discovery: held counts the meetings of the lookback window
\* that are not in the Ledger, listed those get_recent_meetings returned,
\* considered those the gate loop fetched and gated
Discovery(dpc, held, listed, considered) ==
    [pc |-> dpc, held |-> held, listed |-> listed, considered |-> considered]

NoDiscovery == Discovery("idle", 0, 0, 0)

IdleDiscovery == disc = NoDiscovery

\* a get_transcript_details_batch call: st[i] is the state of the task of the
\* i-th id, result the positions whose detail is returned, in order
Batch(bpc, st, raised, result) ==
    [pc |-> bpc, st |-> st, raised |-> raised, result |-> result]

NoBatch == Batch("idle", <<>>, FALSE, <<>>)

IdleBatch == bt = NoBatch

\* run_polling_loop: flag is signal_handler._sync_request, remaining the
\* seconds left to wait; triggers, pending, groups, consumed, manual and
\* regular are history, and so are shut_at (where the loop was when shutdown
\* was requested), trig_at (where it was when the first trigger of the latest
\* group was raised), slept (the seconds slept since the last run) and via
\* (the pause that led back to the while test: "wait" or "backoff");
\* shut_run is where process_meetings was when shutdown was requested
Poll(lpc, flag, shutdown, remaining, triggers, pending, groups, consumed, manual, regular, shut_at, trig_at, slept, via, shut_run) ==
    [pc |-> lpc, flag |-> flag, shutdown |-> shutdown, remaining |-> remaining,
     triggers |-> triggers, pending |-> pending, groups |-> groups,
     consumed |-> consumed, manual |-> manual, regular |-> regular,
     shut_at |-> shut_at, trig_at |-> trig_at, slept |-> slept, via |-> via,
     shut_run |-> shut_run]

NoPoll == Poll("off", FALSE, FALSE, 0, 0, 0, 0, 0, 0, 0, "none", "none", 0, "none", "none")

IdlePoll == pl = NoPoll

InitClientIdle ==
    /\ IdleVault
    /\ IdleRequest
    /\ IdlePaging
    /\ IdleDiscovery
    /\ IdleBatch
    /\ IdlePoll

InitLedgerWith(t) ==
    /\ tracking = t
    /\ file = AbsentFile
    /\ instances = {}
    /\ ret = NoCall
    /\ acked = {}
    /\ ackedMeta = EmptyMeta
    /\ restarts = 0
    /\ ackedAt = NoAck

\* the counts a run reports when it ends
Summary(status, processed, errors, skipped, notified) ==
    [status |-> status, processed |-> processed, errors |-> errors,
     skipped |-> skipped, notified |-> notified]

NoSummary == Summary("none", 0, 0, 0, FALSE)

\* no run of process_meetings has started, the vault holds no note
InitRunIdle ==
    /\ vault = [id \in IDS |-> 0]
    /\ pc = "idle"
    /\ mode = "normal"
    /\ cands = <<>>
    /\ ci = 1
    /\ meetings = <<>>
    /\ mj = 1
    /\ processed_count = 0
    /\ error_count = 0
    /\ skipped_count = 0
    /\ glog = <<>>
    /\ clog = <<>>
    /\ runs = 0
    /\ last = NoSummary

\* the readiness gate at rest
InitReadyIdle ==
    /\ rq = NoOutcome
    /\ rs = Pending
    /\ InitRunIdle

InitLedger == InitLedgerWith(TRUE) /\ InitReadyIdle /\ InitClientIdle

IdSets == SUBSET IDS \ {{}}

\* the API on a file system that answers every read and write
NextLedger ==
    \/ \E sm \in SMS : New(sm, "ok")
    \/ Restart
    \/ \E sm \in SMS, id \in IDS : IsProcessed(sm, id, "ok", "ok")
    \/ \E sm \in SMS, id \in IDS : MarkProcessed(sm, id, "ok", "ok")
    \/ \E sm \in SMS, ids \in IdSets : MarkMultipleProcessed(sm, ids, "ok", "ok")
    \/ \E sm \in SMS, key \in Keys, value \in Values : SetMetadata(sm, key, value, "ok", "ok")
    \/ \E sm \in SMS, key \in Keys : GetMetadata(sm, key, "ok", "ok")
    \/ \E sm \in SMS : GetLastSyncTime(sm, "ok", "ok")
    \/ \E sm \in SMS : GetStats(sm, "ok", "ok")
    \/ \E sm \in SMS : ClearState(sm, "ok")

SpecLedger == InitLedger /\ [][NextLedger]_vars

\* the API called on one object, on a file system that answers every read and
\* write
NextLedgerOne ==
    \/ New("sm1", "ok")
    \/ Restart
    \/ \E id \in IDS : IsProcessed("sm1", id, "ok", "ok")
    \/ \E id \in IDS : MarkProcessed("sm1", id, "ok", "ok")
    \/ \E ids \in IdSets : MarkMultipleProcessed("sm1", ids, "ok", "ok")
    \/ \E key \in Keys, value \in Values : SetMetadata("sm1", key, value, "ok", "ok")
    \/ \E key \in Keys : GetMetadata("sm1", key, "ok", "ok")
    \/ GetLastSyncTime("sm1", "ok", "ok")
    \/ GetStats("sm1", "ok", "ok")
    \/ ClearState("sm1", "ok")

SpecLedgerOne == InitLedger /\ [][NextLedgerOne]_vars

\* the API on a file system whose reads and writes may fail and whose file may
\* be damaged or removed between calls; one object, two ids, one key
InitLedgerFaults == InitLedgerWith(FALSE) /\ InitReadyIdle /\ InitClientIdle

FaultIds == {"m1", "m2"}

NextLedgerFaults ==
    \/ \E wr \in WriteOutcomes : New("sm1", wr)
    \/ Restart
    \/ \E id \in FaultIds, rd \in ReadOutcomes, wr \in WriteOutcomes :
          IsProcessed("sm1", id, rd, wr)
    \/ \E id \in FaultIds, rd \in ReadOutcomes, wr \in WriteOutcomes :
          MarkProcessed("sm1", id, rd, wr)
    \/ \E ids \in SUBSET FaultIds \ {{}}, rd \in ReadOutcomes, wr \in WriteOutcomes :
          MarkMultipleProcessed("sm1", ids, rd, wr)
    \/ \E value \in Values, rd \in ReadOutcomes, wr \in WriteOutcomes :
          SetMetadata("sm1", "k", value, rd, wr)
    \/ \E rd \in ReadOutcomes, wr \in WriteOutcomes : GetMetadata("sm1", "k", rd, wr)
    \/ \E rd \in ReadOutcomes, wr \in WriteOutcomes : GetLastSyncTime("sm1", rd, wr)
    \/ \E rd \in ReadOutcomes, wr \in WriteOutcomes : GetStats("sm1", rd, wr)
    \/ \E wr \in WriteOutcomes : ClearState("sm1", wr)
    \/ \E kind \in {"badjson", "undecodable", "nonobject"} : Corrupt(kind)
    \/ Remove

SpecLedgerFaults == InitLedgerFaults /\ [][NextLedgerFaults]_vars

(***************************************************************************)
(* The readiness gate (src/src/fireflies_client.py).  A request for a      *)
(* meeting produces, in get_meeting, one of:                               *)
(*   "none"       None (the provider reports object_not_found)             *)
(*   "api_error"  a FirefliesAPIError with another error code              *)
(*   "error"      any other exception                                      *)
(*   "nondict"    a transcript value that is no JSON object                *)
(*   "detail"     a transcript object; info tells what its meeting_info    *)
(*                is (missing, null, no object, an object), skind what     *)
(*                meeting_info.summary_status is (missing, null, a value   *)
(*                that is no string, a string) and status the string.      *)
(***************************************************************************)
StatusStrings ==
    {"processed", "processing", "failed", "skipped", "unknown",
     "Processed", "PROCESSED", "processed ", ""}

GetMeetingOutcomes(id) ==
    {Outcome(k, id, "missing", "missing", "") : k \in {"none", "api_error", "error", "nondict"}}
    \cup {Outcome("detail", id, i, "missing", "") : i \in {"missing", "null", "nondict"}}
    \cup {Outcome("detail", id, "dict", sk, "") : sk \in {"missing", "null", "nonstr"}}
    \cup {Outcome("detail", id, "dict", "str", st) : st \in StatusStrings}

\* is_summary_ready that takes every status but the known not-ready ones as ready
is_summary_ready_lenient(meeting_data) ==
    /\ meeting_data.kind = "detail"
    /\ meeting_data.info = "dict"
    /\ ~(meeting_data.skind = "str"
         /\ meeting_data.status \in {"processing", "failed", "skipped"})

\* is_summary_ready: meeting_data is what get_meeting returned
is_summary_ready(meeting_data) ==
    IF meeting_data.kind # "detail" THEN FALSE            \* None or no dict
    ELSE IF meeting_data.info \in {"null", "nondict"} THEN FALSE  \* meeting_info no dict
    ELSE IF meeting_data.info = "missing" THEN FALSE      \* {}.get(...) is None
    ELSE IF meeting_data.skind \in {"missing", "null"} THEN FALSE  \* summary_status is None
    ELSE IF meeting_data.skind = "nonstr" THEN FALSE      \* value == 'processed' is False
    ELSE meeting_data.status = "processed"

\* get_meeting_with_summary_check that returns whatever detail get_meeting gave
get_meeting_with_summary_check_unchecked(o) ==
    IF o.kind = "detail" THEN Answer("detail", o.id) ELSE Answer("none", o.id)

\* get_meeting_with_summary_check: both except clauses return None.  In the
\* not-ready branch the logging reads meeting_info.get(...), an AttributeError
\* when meeting_data or meeting_info is no dict, caught by except Exception.
get_meeting_with_summary_check(o) ==
    CASE o.kind \in {"api_error", "error"} -> Answer("none", o.id)
      [] o.kind = "none" -> Answer("none", o.id)
      [] OTHER ->
            IF ~is_summary_ready(o) THEN Answer("none", o.id)
            ELSE Answer("detail", o.id)

CheckSummary ==
    /\ rs = Pending
    /\ rs' = get_meeting_with_summary_check(rq)
    /\ UNCHANGED <<clientVars, rq, ledgerVars, runVars>>

InitReady ==
    /\ InitLedgerWith(FALSE)
    /\ InitRunIdle
    /\ rq \in UNION {GetMeetingOutcomes(id) : id \in IDS}
    /\ rs = Pending
    /\ InitClientIdle

NextReady == CheckSummary

SpecReady == InitReady /\ [][NextReady]_vars

(***************************************************************************)
(* process_meetings (src/src/main.py) as a process.  A run starts in       *)
(* normal mode, where get_recent_meetings lists the candidates, or in      *)
(* targeted mode, where the caller gives meeting_ids.  The first loop      *)
(* (gate) skips a candidate the Ledger knows and otherwise fetches it      *)
(* through get_meeting_with_summary_check; the second loop writes a note   *)
(* for each queued meeting (persist) and then marks it (mark); the run     *)
(* ends by reporting its counts.  The process may be killed between any    *)
(* two steps: the ledger file and the vault stay as they are.              *)
(***************************************************************************)
\* the fetched detail has meeting_info.summary_status exactly 'processed'
ExactlyProcessed(o) ==
    o.kind = "detail" /\ o.info = "dict" /\ o.skind = "str" /\ o.status = "processed"

RunIds == {"m1", "m2"}

\* the candidate lists of a run, duplicates included
CandidateLists == UNION {[1..n -> RunIds] : n \in 1..MaxCand}

\* candidate lists in which the ids come in one order and in the other
OrderCandidateLists == {<<"m1", "m2">>, <<"m2", "m1">>, <<"m2", "m1", "m2">>}

\* what the provider's answer says about readiness, whatever the code makes of it
SeenClass(o) ==
    IF ExactlyProcessed(o) THEN "processed"
    ELSE IF o.kind = "detail" THEN "notready"
    ELSE "nodetail"

GateEntry(id, known, fetched, seen, queued, dskip, derr) ==
    [id |-> id, known |-> known, fetched |-> fetched, seen |-> seen,
     queued |-> queued, dskip |-> dskip, derr |-> derr]

CreateEntry(id, src, ok, marked) == [id |-> id, src |-> src, ok |-> ok, marked |-> marked]

\* the run does not test the Ledger before fetching
SkipKnownNever(P) == FALSE

\* main.py 62 and 99: if state_manager.is_processed(meeting_id): continue
SkipKnown(P) == P.value = "True"

\* get_recent_meetings raised and the exception leaves process_meetings
DiscoverFailsRaises ==
    /\ pc = "idle"
    /\ runs < MaxRuns
    /\ runs' = runs + 1
    /\ mode' = "normal"
    /\ cands' = <<>>
    /\ ci' = 1
    /\ meetings' = <<>>
    /\ mj' = 1
    /\ processed_count' = 0
    /\ error_count' = 0
    /\ skipped_count' = 0
    /\ glog' = <<>>
    /\ clog' = <<>>
    /\ last' = Summary("raised", 0, 0, 0, FALSE)
    /\ UNCHANGED <<clientVars, pc, vault, ledgerVars, readyVars>>

\* get_recent_meetings raised: the outer except logs, the run returns 0
DiscoverFails ==
    /\ pc = "idle"
    /\ runs < MaxRuns
    /\ runs' = runs + 1
    /\ mode' = "normal"
    /\ cands' = <<>>
    /\ ci' = 1
    /\ meetings' = <<>>
    /\ mj' = 1
    /\ processed_count' = 0
    /\ error_count' = 0
    /\ skipped_count' = 0
    /\ glog' = <<>>
    /\ clog' = <<>>
    /\ last' = Summary("aborted", 0, 0, 0, FALSE)
    /\ UNCHANGED <<clientVars, pc, vault, ledgerVars, readyVars>>

\* process_meetings is called: m is the mode, c the meetings get_recent_meetings
\* listed (normal) or the meeting_ids given (targeted)
StartRun(m, c) ==
    /\ pc = "idle"
    /\ runs < MaxRuns
    /\ runs' = runs + 1
    /\ mode' = m
    /\ cands' = c
    /\ ci' = 1
    /\ meetings' = <<>>
    /\ mj' = 1
    /\ processed_count' = 0
    /\ error_count' = 0
    /\ skipped_count' = 0
    /\ glog' = <<>>
    /\ clog' = <<>>
    /\ last' = NoSummary
    /\ pc' = "gate"
    /\ UNCHANGED <<clientVars, vault, ledgerVars, readyVars>>

\* a first loop that records a candidate it skips after the fetch as processed
GateRecordsSkipped(o, rd, wr) ==
    /\ pc = "gate"
    /\ ci <= Len(cands)
    /\ o \in GetMeetingOutcomes(cands[ci])
    /\ LET meeting_id == cands[ci]
           known == meeting_id \in Persisted
           P == is_processed(file, meeting_id, rd, wr)
           A == get_meeting_with_summary_check(o)
       IN  /\ file' = IF ~P.raised /\ ~SkipKnown(P) /\ A.kind # "detail"
                       THEN mark_processed(P.file, meeting_id, rd, wr).file
                       ELSE P.file
           /\ IF P.raised
              THEN \* the except of the loop body: counted as an error
                   /\ error_count' = error_count + 1
                   /\ glog' = Append(glog, GateEntry(meeting_id, known, FALSE,
                                                     "unfetched", FALSE, 0, 1))
                   /\ UNCHANGED <<meetings, skipped_count>>
              ELSE IF SkipKnown(P)
              THEN /\ glog' = Append(glog, GateEntry(meeting_id, known, FALSE,
                                                     "unfetched", FALSE, 0, 0))
                   /\ UNCHANGED <<meetings, skipped_count, error_count>>
              ELSE IF A.kind = "detail"
              THEN /\ meetings' = Append(meetings, [id |-> A.id, src |-> ci])
                   /\ glog' = Append(glog, GateEntry(meeting_id, known, TRUE,
                                                     SeenClass(o), TRUE, 0, 0))
                   /\ UNCHANGED <<skipped_count, error_count>>
              ELSE /\ skipped_count' = skipped_count + 1
                   /\ glog' = Append(glog, GateEntry(meeting_id, known, TRUE,
                                                     SeenClass(o), FALSE, 1, 0))
                   /\ UNCHANGED <<meetings, error_count>>
    /\ ci' = ci + 1
    /\ pc' = IF ci + 1 > Len(cands) THEN "persist" ELSE "gate"
    /\ UNCHANGED <<clientVars, instances, ret, acked, ackedMeta, restarts, ackedAt, tracking,
                   readyVars, vault, mode, cands, mj, processed_count, clog, runs, last>>

\* one pass of the first loop (main.py 59-76 and 94-119) on candidate cands[ci];
\* o is what get_meeting produces if the candidate is fetched
Gate(o, rd, wr) ==
    /\ pc = "gate"
    /\ ci <= Len(cands)
    /\ o \in GetMeetingOutcomes(cands[ci])
    /\ LET meeting_id == cands[ci]
           known == meeting_id \in Persisted
           P == is_processed(file, meeting_id, rd, wr)
           A == get_meeting_with_summary_check(o)
       IN  /\ file' = P.file
           /\ IF P.raised
              THEN \* the except of the loop body: counted as an error
                   /\ error_count' = error_count + 1
                   /\ glog' = Append(glog, GateEntry(meeting_id, known, FALSE,
                                                     "unfetched", FALSE, 0, 1))
                   /\ UNCHANGED <<meetings, skipped_count>>
              ELSE IF SkipKnown(P)
              THEN /\ glog' = Append(glog, GateEntry(meeting_id, known, FALSE,
                                                     "unfetched", FALSE, 0, 0))
                   /\ UNCHANGED <<meetings, skipped_count, error_count>>
              ELSE IF A.kind = "detail"
              THEN /\ meetings' = Append(meetings, [id |-> A.id, src |-> ci])
                   /\ glog' = Append(glog, GateEntry(meeting_id, known, TRUE,
                                                     SeenClass(o), TRUE, 0, 0))
                   /\ UNCHANGED <<skipped_count, error_count>>
              ELSE /\ skipped_count' = skipped_count + 1
                   /\ glog' = Append(glog, GateEntry(meeting_id, known, TRUE,
                                                     SeenClass(o), FALSE, 1, 0))
                   /\ UNCHANGED <<meetings, error_count>>
    /\ ci' = ci + 1
    /\ pc' = IF ci + 1 > Len(cands) THEN "persist" ELSE "gate"
    /\ UNCHANGED <<clientVars, instances, ret, acked, ackedMeta, restarts, ackedAt, tracking,
                   readyVars, vault, mode, cands, mj, processed_count, clog, runs, last>>

\* create_meeting_note (obsidian_sync.py 129-147): out is what format_meeting
\* and save_meeting do; every exception is caught and None returned
create_meeting_note(out) == IF out = "ok" THEN "path" ELSE NoneValue

CreateOutcomes == {"ok", "render_fail", "write_fail"}

\* the run marks whatever create_meeting_note returned
ShouldMarkAlways(file_path) == TRUE

\* main.py 139: if file_path:
ShouldMark(file_path) == file_path # NoneValue

\* second loop, main.py 128-139: the note of meetings[mj] is created
CreateNote(out) ==
    /\ pc = "persist"
    /\ mj <= Len(meetings)
    /\ LET meeting == meetings[mj]
           file_path == create_meeting_note(out)
       IN  /\ vault' = IF file_path # NoneValue
                       THEN [vault EXCEPT ![meeting.id] = @ + 1] ELSE vault
           /\ clog' = Append(clog, CreateEntry(meeting.id, meeting.src,
                                               file_path # NoneValue, FALSE))
           /\ IF ShouldMark(file_path)
              THEN pc' = "mark" /\ mj' = mj
              ELSE pc' = "persist" /\ mj' = mj + 1
    /\ UNCHANGED <<clientVars, ledgerVars, readyVars, mode, cands, ci, meetings, processed_count,
                   error_count, skipped_count, glog, runs, last>>

\* a second loop that drops the mark when shutdown has been requested
MarkUnlessShutdown(rd, wr) ==
    /\ pc = "mark"
    /\ LET meeting == meetings[mj]
           R == mark_processed(file, meeting.id, rd, wr)
       IN  IF pl.shutdown
           THEN UNCHANGED <<file, error_count, processed_count, clog>>
           ELSE /\ file' = R.file
                /\ IF R.raised
                   THEN error_count' = error_count + 1 /\ UNCHANGED processed_count
                   ELSE processed_count' = processed_count + 1 /\ UNCHANGED error_count
                /\ clog' = [clog EXCEPT ![Len(clog)].marked = TRUE]
    /\ mj' = mj + 1
    /\ pc' = "persist"
    /\ UNCHANGED <<clientVars, instances, ret, acked, ackedMeta, restarts, ackedAt, tracking,
                   readyVars, vault, mode, cands, ci, meetings, skipped_count, glog,
                   runs, last>>

\* second loop, main.py 140-149: mark_processed, the count, the notification
\* (notify_meeting_synced catches its own exceptions); an exception of
\* mark_processed is counted as an error
Mark(rd, wr) ==
    /\ pc = "mark"
    /\ LET meeting == meetings[mj]
           R == mark_processed(file, meeting.id, rd, wr)
       IN  /\ file' = R.file
           /\ IF R.raised
              THEN error_count' = error_count + 1 /\ UNCHANGED processed_count
              ELSE processed_count' = processed_count + 1 /\ UNCHANGED error_count
    /\ clog' = [clog EXCEPT ![Len(clog)].marked = TRUE]
    /\ mj' = mj + 1
    /\ pc' = "persist"
    /\ UNCHANGED <<clientVars, instances, ret, acked, ackedMeta, restarts, ackedAt, tracking,
                   readyVars, vault, mode, cands, ci, meetings, skipped_count, glog,
                   runs, last>>

\* the end of a run that requests the summary only when a note was processed
SummarizeProcessedOnly ==
    /\ pc = "persist"
    /\ mj > Len(meetings)
    /\ last' = Summary("completed", processed_count, error_count, skipped_count,
                       processed_count > 0)
    /\ pc' = "idle"
    /\ UNCHANGED <<clientVars, ledgerVars, readyVars, vault, mode, cands, ci, meetings, mj,
                   processed_count, error_count, skipped_count, glog, clog, runs>>

\* main.py 151-164: the summary notification is requested when something was
\* processed or failed; the run returns processed_count
Summarize ==
    /\ pc = "persist"
    /\ mj > Len(meetings)
    /\ last' = Summary("completed", processed_count, error_count, skipped_count,
                       processed_count > 0 \/ error_count > 0)
    /\ pc' = "idle"
    /\ UNCHANGED <<clientVars, ledgerVars, readyVars, vault, mode, cands, ci, meetings, mj,
                   processed_count, error_count, skipped_count, glog, clog, runs>>

\* the process is killed in the middle of a run
Crash ==
    /\ pc # "idle"
    /\ pc' = "idle"
    /\ last' = Summary("crashed", 0, 0, 0, FALSE)
    /\ UNCHANGED <<clientVars, ledgerVars, readyVars, vault, mode, cands, ci, meetings, mj,
                   processed_count, error_count, skipped_count, glog, clog, runs>>

\* run_polling_loop has constructed its StateManager: the ledger file exists
Init ==
    /\ tracking = FALSE
    /\ file = EmptyFile
    /\ instances = {"sm1"}
    /\ ret = NoCall
    /\ acked = {}
    /\ ackedMeta = EmptyMeta
    /\ restarts = 0
    /\ ackedAt = NoAck
    /\ InitReadyIdle
    /\ InitClientIdle

Modes == {"normal", "targeted"}

\* runs on a ledger file that answers every read and write
Next ==
    \/ DiscoverFails
    \/ \E m \in Modes, c \in CandidateLists : StartRun(m, c)
    \/ \E o \in UNION {GetMeetingOutcomes(id) : id \in RunIds} : Gate(o, "ok", "ok")
    \/ \E out \in CreateOutcomes : CreateNote(out)
    \/ Mark("ok", "ok")
    \/ Summarize
    \/ Crash

Spec == Init /\ [][Next]_vars

\* the candidate lists of runs that all list m1
RetryCandidateLists == {<<"m1">>, <<"m1", "m2">>, <<"m2", "m1">>}

\* runs that follow one another, every one listing m1, none of them killed
NextRetry ==
    \/ \E m \in Modes, c \in RetryCandidateLists : StartRun(m, c)
    \/ \E o \in UNION {GetMeetingOutcomes(id) : id \in RunIds} : Gate(o, "ok", "ok")
    \/ \E out \in CreateOutcomes : CreateNote(out)
    \/ Mark("ok", "ok")
    \/ Summarize

SpecRetry == Init /\ [][NextRetry]_vars

\* the candidate lists of a run on a failing ledger file: one candidate, two
\* candidates, the same candidate twice
FaultCandidateLists == {<<"m1">>, <<"m1", "m2">>, <<"m2", "m2">>}

\* runs on a ledger file whose reads and writes may fail and which may be
\* damaged or removed between any two steps
NextFaults ==
    \/ DiscoverFails
    \/ \E m \in Modes, c \in FaultCandidateLists : StartRun(m, c)
    \/ \E o \in UNION {GetMeetingOutcomes(id) : id \in RunIds},
          rd \in ReadOutcomes, wr \in WriteOutcomes : Gate(o, rd, wr)
    \/ \E out \in CreateOutcomes : CreateNote(out)
    \/ \E rd \in ReadOutcomes, wr \in WriteOutcomes : Mark(rd, wr)
    \/ Summarize
    \/ Crash
    \/ \E kind \in {"badjson", "undecodable", "nonobject"} : Corrupt(kind)
    \/ Remove

SpecFaults == Init /\ [][NextFaults]_vars

\* runs on a ledger file that cannot always be opened or written, and that
\* nothing else touches
NextUnwritable ==
    \/ DiscoverFails
    \/ \E m \in Modes, c \in FaultCandidateLists : StartRun(m, c)
    \/ \E o \in UNION {GetMeetingOutcomes(id) : id \in RunIds},
          rd \in ReadOutcomes, wr \in WriteOutcomes : Gate(o, rd, wr)
    \/ \E out \in CreateOutcomes : CreateNote(out)
    \/ \E rd \in ReadOutcomes, wr \in WriteOutcomes : Mark(rd, wr)
    \/ Summarize
    \/ Crash

SpecUnwritable == Init /\ [][NextUnwritable]_vars

(***************************************************************************)
(* The Note Writer's file naming (src/src/obsidian_sync.py).  The folder   *)
(* maps the versions of one generated file name that exist to their        *)
(* content.  save_meeting meets one of:                                    *)
(*   "ok"                the folder exists or is made, the file is written *)
(*   "mkdir_fail"        initialize_vault_folder raises                    *)
(*   "write_fail_before" write_text raises before the file is created      *)
(*   "write_fail_after"  write_text raises after creating the file, which  *)
(*                       is left with partial content                      *)
(***************************************************************************)
MaxFiles == 5

Contents == {"c1", "c2"}
Partial == "partial"

SaveOutcomes == {"ok", "mkdir_fail", "write_fail_before", "write_fail_after"}

\* Path.exists
Exists(F, n) == n \in DOMAIN F

\* the while loop of get_unique_filename, from the version it has reached
RECURSIVE FirstUnused(_, _)
FirstUnused(F, version) ==
    IF ~Exists(F, version) THEN version ELSE FirstUnused(F, version + 1)

\* get_unique_filename that numbers after the highest version present
get_unique_filename_after_last(F) ==
    IF ~Exists(F, 0) THEN 0
    ELSE 1 + CHOOSE m \in DOMAIN F : \A k \in DOMAIN F : k <= m

get_unique_filename(F) ==
    IF ~Exists(F, 0) THEN 0 ELSE FirstUnused(F, 1)

\* Path.write_text on a path of the folder
WriteText(F, n, content) ==
    [k \in DOMAIN F \cup {n} |-> IF k = n THEN content ELSE F[k]]

SaveResult(F, path, raised) == [folder |-> F, path |-> path, raised |-> raised]

\* save_meeting that writes to the generated name without get_unique_filename
save_meeting_overwrite(F, content, out) ==
    IF out = "ok" THEN SaveResult(WriteText(F, 0, content), 0, FALSE)
    ELSE SaveResult(F, NoPath, TRUE)

save_meeting(F, content, out) ==
    IF out = "mkdir_fail" THEN SaveResult(F, NoPath, TRUE)
    ELSE LET unique_file_path == get_unique_filename(F)
         IN  CASE out = "ok" ->
                    SaveResult(WriteText(F, unique_file_path, content),
                               unique_file_path, FALSE)
               [] out = "write_fail_before" -> SaveResult(F, NoPath, TRUE)
               [] OTHER ->
                    SaveResult(WriteText(F, unique_file_path, Partial), NoPath, TRUE)

GetUniqueFilename ==
    /\ saved' = Saved("get_unique_filename", folder, get_unique_filename(folder), "", FALSE)
    /\ UNCHANGED <<folder, req, pg, disc, bt, pl, ledgerVars, readyVars, runVars>>

SaveMeeting(content, out) ==
    /\ Cardinality(DOMAIN folder) < MaxFiles
    /\ LET R == save_meeting(folder, content, out)
       IN  /\ folder' = R.folder
           /\ saved' = Saved("save_meeting", folder, R.path, content, R.raised)
    /\ UNCHANGED <<req, pg, disc, bt, pl, ledgerVars, readyVars, runVars>>

\* the user removes a note from the vault
DeleteNote(n) ==
    /\ n \in DOMAIN folder
    /\ folder' = [k \in DOMAIN folder \ {n} |-> folder[k]]
    /\ saved' = NoSave
    /\ UNCHANGED <<req, pg, disc, bt, pl, ledgerVars, readyVars, runVars>>

\* everything but the Note Writer and the Source Client at rest
InitCoreIdle == InitLedgerWith(FALSE) /\ InitReadyIdle

InitVault ==
    /\ InitCoreIdle
    /\ IdleVault
    /\ IdleRequest /\ IdlePaging /\ IdleDiscovery /\ IdleBatch /\ IdlePoll

NextVault ==
    \/ GetUniqueFilename
    \/ \E content \in Contents, out \in SaveOutcomes : SaveMeeting(content, out)
    \/ \E n \in 0..MaxFiles : DeleteNote(n)

SpecVault == InitVault /\ [][NextVault]_vars


(***************************************************************************)
(* Listing meetings (src/src/fireflies_client.py).  The provider answers a *)
(* request for at most limit items with a page of 0..limit items, or the   *)
(* request raises FirefliesAPIError.                                       *)
(***************************************************************************)
ApiMaxLimit == 50
DefaultListLimit == 100
MaxPages == 4
MaxHeld == 52

Min(a, b) == IF a <= b THEN a ELSE b

RECURSIVE SeqSum(_)
SeqSum(s) == IF s = <<>> THEN 0 ELSE s[1] + SeqSum(Tail(s))

\* the batch_size arguments tried
BatchSizes == {1, 2, 5, 10, 20, 50, 60}

\* the lengths of the pages the provider may return for a request of limit items
PageSizes(limit) == {n \in {0, 1, 3, 13, limit} : n <= limit}

\* the page the provider returns to a request with this skip, when it returns
\* n items: the items at the positions skip + 1 .. skip + n of its listing
Page(skip, n) == [j \in 1..n |-> skip + j]

\* get_all_transcripts_since that goes on until a page is empty
get_all_transcripts_since_until_empty(p, n) ==
    LET batch == Page(p.skip, n)
        q == [p EXCEPT !.requests = @ + 1, !.sizes = Append(@, n),
                       !.skips = Append(@, p.skip)]
        extended == [q EXCEPT !.total = @ + n, !.all_transcripts = @ \o batch]
    IN  IF n = 0 THEN [q EXCEPT !.pc = "done"]
        ELSE [extended EXCEPT !.skip = @ + p.batch_size]

\* get_all_transcripts_since that puts each new page in front of the list
get_all_transcripts_since_prepend(p, n) ==
    LET batch == Page(p.skip, n)
        q == [p EXCEPT !.requests = @ + 1, !.sizes = Append(@, n),
                       !.skips = Append(@, p.skip)]
        extended == [q EXCEPT !.total = @ + n, !.all_transcripts = batch \o @]
    IN  IF n = 0 THEN [q EXCEPT !.pc = "done"]
        ELSE IF n < p.batch_size THEN [extended EXCEPT !.pc = "done"]
        ELSE [extended EXCEPT !.skip = @ + p.batch_size]

\* one iteration of the while loop of get_all_transcripts_since, on a page of
\* n items
get_all_transcripts_since(p, n) ==
    LET batch == Page(p.skip, n)
        q == [p EXCEPT !.requests = @ + 1, !.sizes = Append(@, n),
                       !.skips = Append(@, p.skip)]
        extended == [q EXCEPT !.total = @ + n, !.all_transcripts = @ \o batch]
    IN  IF n = 0 THEN [q EXCEPT !.pc = "done"]
        ELSE IF n < p.batch_size THEN [extended EXCEPT !.pc = "done"]
        ELSE [extended EXCEPT !.skip = @ + p.batch_size]

StartPaging(batch_size) ==
    /\ pg.pc # "fetch"
    /\ pg' = Paging("fetch", Min(batch_size, ApiMaxLimit), 0, 0, <<>>, 0, <<>>, <<>>)
    /\ UNCHANGED <<folder, saved, req, disc, bt, pl, ledgerVars, readyVars, runVars>>

\* get_recent_transcripts returns a page; the provider holds at most
\* MaxPages - 1 full pages
GetPage(n) ==
    /\ pg.pc = "fetch"
    /\ n \in PageSizes(Min(pg.batch_size, ApiMaxLimit))
    /\ n = pg.batch_size => Len(pg.sizes) + 1 < MaxPages
    /\ pg' = get_all_transcripts_since(pg, n)
    /\ UNCHANGED <<folder, saved, req, disc, bt, pl, ledgerVars, readyVars, runVars>>

\* get_recent_transcripts raises, and so does get_all_transcripts_since
PageFails ==
    /\ pg.pc = "fetch"
    /\ pg' = [pg EXCEPT !.requests = @ + 1, !.skips = Append(@, pg.skip), !.pc = "raised"]
    /\ UNCHANGED <<folder, saved, req, disc, bt, pl, ledgerVars, readyVars, runVars>>

InitPaging ==
    /\ InitCoreIdle
    /\ IdlePaging
    /\ IdleVault /\ IdleRequest /\ IdleDiscovery /\ IdleBatch /\ IdlePoll

NextPaging ==
    \/ \E batch_size \in BatchSizes : StartPaging(batch_size)
    \/ \E n \in 0..ApiMaxLimit : GetPage(n)
    \/ PageFails

SpecPaging == InitPaging /\ [][NextPaging]_vars

\* A listing through get_all_transcripts_since and runs of process_meetings.
\* The two share no state, so the listing is taken first and the runs follow.
NextOrder ==
    \/ \E batch_size \in BatchSizes : runs = 0 /\ pc = "idle" /\ StartPaging(batch_size)
    \/ \E n \in 0..ApiMaxLimit : GetPage(n)
    \/ PageFails
    \/ \E c \in OrderCandidateLists : pg.pc \in {"done", "raised"} /\ StartRun("normal", c)
    \/ \E o \in UNION {GetMeetingOutcomes(id) : id \in RunIds} : Gate(o, "ok", "ok")
    \/ \E out \in CreateOutcomes : CreateNote(out)
    \/ Mark("ok", "ok")
    \/ Summarize

SpecOrder == Init /\ [][NextOrder]_vars

(***************************************************************************)
(* Discovery in normal mode (src/src/main.py lines 77-119): the candidates *)
(* are what one get_recent_meetings call returns.  held is the number of   *)
(* meetings the provider holds inside the lookback window, none of them in *)
(* the Ledger.                                                             *)
(***************************************************************************)
\* the number of items the provider returns to get_recent_transcripts
get_recent_transcripts(held, limit, skip) ==
    Min(IF held > skip THEN held - skip ELSE 0, Min(limit, ApiMaxLimit))

get_recent_meetings(held) == get_recent_transcripts(held, DefaultListLimit, 0)

Discover(held) ==
    /\ disc.pc # "gate"
    /\ disc' = Discovery("gate", held, get_recent_meetings(held), 0)
    /\ UNCHANGED <<folder, saved, req, pg, bt, pl, ledgerVars, readyVars, runVars>>

\* the gate loop fetches and gates the next candidate
Consider ==
    /\ disc.pc = "gate"
    /\ disc.considered < disc.listed
    /\ disc' = [disc EXCEPT !.considered = @ + 1]
    /\ UNCHANGED <<folder, saved, req, pg, bt, pl, ledgerVars, readyVars, runVars>>

\* the gate loop has gone through meetings_list
EndDiscovery ==
    /\ disc.pc = "gate"
    /\ disc.considered = disc.listed
    /\ disc' = [disc EXCEPT !.pc = "done"]
    /\ UNCHANGED <<folder, saved, req, pg, bt, pl, ledgerVars, readyVars, runVars>>

InitDiscovery ==
    /\ InitCoreIdle
    /\ IdleDiscovery
    /\ IdleVault /\ IdleRequest /\ IdlePaging /\ IdleBatch /\ IdlePoll

NextDiscovery ==
    \/ \E held \in 0..MaxHeld : Discover(held)
    \/ Consider
    \/ EndDiscovery

SpecDiscovery == InitDiscovery /\ [][NextDiscovery]_vars


(***************************************************************************)
(* _make_request (src/src/fireflies_client.py lines 140-224).  Each HTTP   *)
(* attempt is answered by one of:                                          *)
(*   "ok"              HTTP 200 with data                                  *)
(*   "graphql_error"   HTTP 200 whose body carries errors                  *)
(*   "rate_limit"      HTTP 429, with or without a Retry-After header; the *)
(*                     header holds delay-seconds or an HTTP-date          *)
(*   "forbidden"       HTTP 403                                            *)
(*   "server_error"    any other status                                    *)
(*   "transport_error" httpx.RequestError raised by the post               *)
(***************************************************************************)
MaxRetriesArg == 3
DefaultRetryAfter == 60

Absent == "absent"

\* the Retry-After header values tried
RetryAfterHeaders == {Absent, "0", "7", "Wed, 21 Oct 2015 07:28:00 GMT"}

NotAnInt == 0 - 1

\* int(text): the number a decimal literal denotes, ValueError otherwise
int(text) ==
    CASE text = "0" -> 0
      [] text = "7" -> 7
      [] OTHER -> NotAnInt

Reply(kind, retry_after) == [kind |-> kind, retry_after |-> retry_after]

Replies ==
    {Reply(kind, Absent) :
        kind \in {"ok", "graphql_error", "forbidden", "server_error", "transport_error"}}
    \cup {Reply("rate_limit", h) : h \in RetryAfterHeaders}

\* a backoff that does not grow
Pow2_constant(n) == 1

RECURSIVE Pow2(_)
Pow2(n) == IF n = 0 THEN 1 ELSE 2 * Pow2(n - 1)

\* an asyncio.sleep call: the attempt it follows, the reply that caused it
Slept(attempt, reply, dur) ==
    [attempt |-> attempt, after |-> reply.kind, header |-> reply.retry_after, dur |-> dur]

\* _make_request that treats HTTP 403 as any other error status
_make_request_retry_forbidden(r, reply) ==
    LET attempt == r.attempt
        q == [r EXCEPT !.posts = @ + 1, !.reply = reply]
        Retry(dur) == [q EXCEPT !.attempt = @ + 1,
                                !.sleeps = Append(@, Slept(attempt, reply, dur))]
        Raise(exc, code) == [q EXCEPT !.pc = "done", !.result = exc, !.error_code = code]
        RetryOrRaise == IF attempt < r.max_retries - 1
                   THEN Retry(Pow2(attempt))
                   ELSE Raise("FirefliesAPIError", "none")
    IN  CASE reply.kind = "ok" -> [q EXCEPT !.pc = "done", !.result = "response"]
          [] reply.kind = "graphql_error" -> Raise("FirefliesAPIError", "invalid_arguments")
          [] reply.kind = "rate_limit" ->
                IF reply.retry_after # Absent /\ int(reply.retry_after) = NotAnInt
                THEN Raise("ValueError", "none")
                ELSE LET retry_after == IF reply.retry_after = Absent
                                        THEN DefaultRetryAfter
                                        ELSE int(reply.retry_after)
                     IN  IF attempt < r.max_retries - 1
                         THEN Retry(retry_after)
                         ELSE Raise("FirefliesAPIError", "too_many_requests")
          [] OTHER -> RetryOrRaise

\* one iteration of the for loop of _make_request, on the reply to its post
_make_request(r, reply) ==
    LET attempt == r.attempt
        q == [r EXCEPT !.posts = @ + 1, !.reply = reply]
        Retry(dur) == [q EXCEPT !.attempt = @ + 1,
                                !.sleeps = Append(@, Slept(attempt, reply, dur))]
        Raise(exc, code) == [q EXCEPT !.pc = "done", !.result = exc, !.error_code = code]
        RetryOrRaise == IF attempt < r.max_retries - 1
                   THEN Retry(Pow2(attempt))
                   ELSE Raise("FirefliesAPIError", "none")
    IN  CASE reply.kind = "ok" -> [q EXCEPT !.pc = "done", !.result = "response"]
          [] reply.kind = "graphql_error" -> Raise("FirefliesAPIError", "invalid_arguments")
          [] reply.kind = "rate_limit" ->
                IF reply.retry_after # Absent /\ int(reply.retry_after) = NotAnInt
                THEN Raise("ValueError", "none")
                ELSE LET retry_after == IF reply.retry_after = Absent
                                        THEN DefaultRetryAfter
                                        ELSE int(reply.retry_after)
                     IN  IF attempt < r.max_retries - 1
                         THEN Retry(retry_after)
                         ELSE Raise("FirefliesAPIError", "too_many_requests")
          [] reply.kind = "forbidden" -> Raise("FirefliesAPIError", "forbidden")
          [] OTHER -> RetryOrRaise

StartRequest(max_retries) ==
    /\ req.pc # "send"
    /\ req' = Request("send", max_retries, 0, 0, <<>>, NoReply, "pending", "none")
    /\ UNCHANGED <<folder, saved, pg, disc, bt, pl, ledgerVars, readyVars, runVars>>

Attempt(reply) ==
    /\ req.pc = "send"
    /\ req.attempt < req.max_retries
    /\ req' = _make_request(req, reply)
    /\ UNCHANGED <<folder, saved, pg, disc, bt, pl, ledgerVars, readyVars, runVars>>

\* the for loop ends without a return or a raise: line 224
Exhausted ==
    /\ req.pc = "send"
    /\ req.attempt >= req.max_retries
    /\ req' = [req EXCEPT !.pc = "done", !.result = "FirefliesAPIError"]
    /\ UNCHANGED <<folder, saved, pg, disc, bt, pl, ledgerVars, readyVars, runVars>>

InitRequest ==
    /\ InitCoreIdle
    /\ IdleRequest
    /\ IdleVault /\ IdlePaging /\ IdleDiscovery /\ IdleBatch /\ IdlePoll

NextRequest ==
    \/ \E max_retries \in 0..MaxRetriesArg : StartRequest(max_retries)
    \/ \E reply \in Replies : Attempt(reply)
    \/ Exhausted

SpecRequest == InitRequest /\ [][NextRequest]_vars


(***************************************************************************)
(* get_transcript_details_batch (src/src/fireflies_client.py lines         *)
(* 415-468).  One task per id, each wrapped by fetch_with_semaphore; a     *)
(* task is "waiting" for the semaphore, then "inflight" while its          *)
(* get_transcript_details request runs, then holds what the wrapper gave   *)
(* to gather: "detail", "None" (FirefliesAPIError caught) or "exception"   *)
(* (any other exception).                                                  *)
(***************************************************************************)
SemaphoreLimit == 5
MaxBatch == 6

FetchOutcomes == {"ok", "api_error", "other_error"}

InFlight(st) == Cardinality({i \in DOMAIN st : st[i] = "inflight"})

\* a semaphore that never blocks
semaphore_unbounded(st) == TRUE

\* asyncio.Semaphore(5): whether 'async with semaphore' may enter
semaphore(st) == InFlight(st) < SemaphoreLimit

\* what fetch_with_semaphore hands to gather for an outcome of its request
fetch_with_semaphore(outcome) ==
    CASE outcome = "ok" -> "detail"
      [] outcome = "api_error" -> "None"
      [] OTHER -> "exception"

GatherResult(raised, results) == [raised |-> raised, results |-> results]

\* asyncio.gather without return_exceptions: the first exception is raised
gather_propagating(st) ==
    GatherResult(\E i \in DOMAIN st : st[i] = "exception", st)

\* asyncio.gather(..., return_exceptions=True): the results in task order
gather(st) == GatherResult(FALSE, st)

\* the positions, in order, of the results that are neither None nor an exception
RECURSIVE successful_results(_, _)
successful_results(results, i) ==
    IF i > Len(results) THEN <<>>
    ELSE IF results[i] = "detail" THEN <<i>> \o successful_results(results, i + 1)
    ELSE successful_results(results, i + 1)

StartBatch(n) ==
    /\ bt.pc # "gather"
    /\ bt' = IF n = 0 THEN Batch("done", <<>>, FALSE, <<>>)
             ELSE Batch("gather", [i \in 1..n |-> "waiting"], FALSE, <<>>)
    /\ UNCHANGED <<folder, saved, req, pg, disc, pl, ledgerVars, readyVars, runVars>>

\* a task enters 'async with semaphore' and its request is sent
Acquire(i) ==
    /\ bt.pc = "gather"
    /\ i \in DOMAIN bt.st
    /\ bt.st[i] = "waiting"
    /\ semaphore(bt.st)
    /\ bt' = [bt EXCEPT !.st[i] = "inflight"]
    /\ UNCHANGED <<folder, saved, req, pg, disc, pl, ledgerVars, readyVars, runVars>>

\* a request completes and its task releases the semaphore
Complete(i, outcome) ==
    /\ bt.pc = "gather"
    /\ i \in DOMAIN bt.st
    /\ bt.st[i] = "inflight"
    /\ bt' = [bt EXCEPT !.st[i] = fetch_with_semaphore(outcome)]
    /\ UNCHANGED <<folder, saved, req, pg, disc, pl, ledgerVars, readyVars, runVars>>

\* every task is done: gather returns and the results are filtered
Gather ==
    /\ bt.pc = "gather"
    /\ \A i \in DOMAIN bt.st : bt.st[i] \notin {"waiting", "inflight"}
    /\ LET G == gather(bt.st)
       IN  bt' = [bt EXCEPT !.pc = "done",
                            !.raised = G.raised,
                            !.result = IF G.raised THEN <<>>
                                       ELSE successful_results(G.results, 1)]
    /\ UNCHANGED <<folder, saved, req, pg, disc, pl, ledgerVars, readyVars, runVars>>

InitBatch ==
    /\ InitCoreIdle
    /\ IdleBatch
    /\ IdleVault /\ IdleRequest /\ IdlePaging /\ IdleDiscovery /\ IdlePoll

NextBatch ==
    \/ \E n \in 0..MaxBatch : StartBatch(n)
    \/ \E i \in 1..MaxBatch : Acquire(i)
    \/ \E i \in 1..MaxBatch, outcome \in FetchOutcomes : Complete(i, outcome)
    \/ Gather

SpecBatch == InitBatch /\ [][NextBatch]_vars


(***************************************************************************)
(* The sync-now trigger (src/src/signal_handler.py) and run_polling_loop   *)
(* (src/src/main.py lines 200-235).  The loop is at one of:                *)
(*   "off"      not started          "top"     the while test and line 203 *)
(*   "is_set"   clear_sync_request's test      "clear"   its clear()       *)
(*   "manual"   the signal-triggered process_meetings call                 *)
(*   "regular"  the regular process_meetings call                          *)
(*   "meta"     set_metadata         "wait"    the one-second wait loop    *)
(*   "backoff"  the except clause's sleep      "stopped" after the loop    *)
(* SIGUSR1 runs trigger_immediate_sync between any two steps of the loop.  *)
(***************************************************************************)
MaxTriggers == 3
MaxPolls == 2
PollInterval == 2

\* _sync_request.set()
trigger_immediate_sync(flag) == TRUE

\* _sync_request.is_set()
is_sync_requested(flag) == flag

\* a clear that leaves the request pending
clear_sync_request_keeps(flag) == flag

\* _sync_request.clear(): the flag after it
clear_sync_request(flag) == FALSE

StartPolling ==
    /\ pl.pc = "off"
    /\ pl' = [pl EXCEPT !.pc = "top"]
    /\ UNCHANGED <<folder, saved, req, pg, disc, bt, ledgerVars, readyVars, runVars>>

\* SIGUSR1 is delivered
Trigger ==
    /\ pl.pc \notin {"off", "stopped"}
    /\ pl.triggers < MaxTriggers
    /\ pl' = [pl EXCEPT !.flag = trigger_immediate_sync(pl.flag),
                        !.triggers = @ + 1,
                        !.pending = @ + 1,
                        !.groups = IF pl.pending = 0 THEN @ + 1 ELSE @,
                        !.trig_at = IF pl.pending = 0 THEN pl.pc ELSE @]
    /\ UNCHANGED <<folder, saved, req, pg, disc, bt, ledgerVars, readyVars, runVars>>

\* SIGINT or SIGTERM is delivered
Shutdown ==
    /\ pl.pc \notin {"off", "stopped"}
    /\ ~pl.shutdown
    /\ pl' = [pl EXCEPT !.shutdown = TRUE, !.shut_at = pl.pc, !.shut_run = pc]
    /\ UNCHANGED <<folder, saved, req, pg, disc, bt, ledgerVars, readyVars, runVars>>

\* 'while not shutdown_requested' and 'if sig_handler.is_sync_requested()'
LoopTest ==
    /\ pl.pc = "top"
    /\ (~pl.shutdown /\ ~is_sync_requested(pl.flag)) => pl.regular < MaxPolls
    /\ pl' = [pl EXCEPT !.pc = IF pl.shutdown THEN "stopped"
                               ELSE IF is_sync_requested(pl.flag) THEN "is_set"
                               ELSE "regular"]
    /\ UNCHANGED <<folder, saved, req, pg, disc, bt, ledgerVars, readyVars, runVars>>

\* clear_sync_request: 'if _sync_request.is_set()'
ClearTest ==
    /\ pl.pc = "is_set"
    /\ pl' = [pl EXCEPT !.pc = IF pl.flag THEN "clear" ELSE "manual"]
    /\ UNCHANGED <<folder, saved, req, pg, disc, bt, ledgerVars, readyVars, runVars>>

\* clear_sync_request: '_sync_request.clear()'; the triggers raised so far
\* are consumed
Clear ==
    /\ pl.pc = "clear"
    /\ pl' = [pl EXCEPT !.flag = clear_sync_request(pl.flag),
                        !.pending = 0,
                        !.consumed = @ + 1,
                        !.pc = "manual"]
    /\ UNCHANGED <<folder, saved, req, pg, disc, bt, ledgerVars, readyVars, runVars>>

\* a signal-triggered run after which the flag is cleared once more
ManualRunClearsAfter ==
    /\ pl.pc = "manual"
    /\ pl' = [pl EXCEPT !.manual = @ + 1, !.pc = "meta",
                        !.flag = clear_sync_request(pl.flag)]
    /\ UNCHANGED <<folder, saved, req, pg, disc, bt, ledgerVars, readyVars, runVars>>

\* the signal-triggered run of process_meetings (which raises nothing)
ManualRun ==
    /\ pl.pc = "manual"
    /\ pl' = [pl EXCEPT !.manual = @ + 1, !.pc = "meta"]
    /\ UNCHANGED <<folder, saved, req, pg, disc, bt, ledgerVars, readyVars, runVars>>

\* the regular run of process_meetings
RegularRun ==
    /\ pl.pc = "regular"
    /\ pl' = [pl EXCEPT !.regular = @ + 1, !.pc = "meta"]
    /\ UNCHANGED <<folder, saved, req, pg, disc, bt, ledgerVars, readyVars, runVars>>

\* set_metadata('last_poll_time', ...) returns, or raises into the except clause
SetPollTime(raised) ==
    /\ pl.pc = "meta"
    /\ pl' = IF raised THEN [pl EXCEPT !.pc = "backoff", !.slept = 0, !.via = "none"]
             ELSE [pl EXCEPT !.pc = "wait", !.remaining = PollInterval,
                             !.slept = 0, !.via = "none"]
    /\ UNCHANGED <<folder, saved, req, pg, disc, bt, ledgerVars, readyVars, runVars>>

\* a wait loop that does not test shutdown_requested
WaitTickIgnoresShutdown ==
    /\ pl.pc = "wait"
    /\ pl' = IF is_sync_requested(pl.flag) \/ pl.remaining = 0
             THEN [pl EXCEPT !.pc = "top", !.remaining = 0, !.via = "wait"]
             ELSE [pl EXCEPT !.remaining = @ - 1, !.slept = @ + 1]
    /\ UNCHANGED <<folder, saved, req, pg, disc, bt, ledgerVars, readyVars, runVars>>

\* a wait loop that does not test the pending-sync flag
WaitTickIgnoresTrigger ==
    /\ pl.pc = "wait"
    /\ pl' = IF pl.shutdown \/ pl.remaining = 0
             THEN [pl EXCEPT !.pc = "top", !.remaining = 0, !.via = "wait"]
             ELSE [pl EXCEPT !.remaining = @ - 1, !.slept = @ + 1]
    /\ UNCHANGED <<folder, saved, req, pg, disc, bt, ledgerVars, readyVars, runVars>>

\* one turn of 'for _ in range(poll_interval)'
WaitTick ==
    /\ pl.pc = "wait"
    /\ pl' = IF pl.shutdown \/ is_sync_requested(pl.flag) \/ pl.remaining = 0
             THEN [pl EXCEPT !.pc = "top", !.remaining = 0, !.via = "wait"]
             ELSE [pl EXCEPT !.remaining = @ - 1, !.slept = @ + 1]
    /\ UNCHANGED <<folder, saved, req, pg, disc, bt, ledgerVars, readyVars, runVars>>

\* an except clause that gives up: the loop is left
BackoffLeavesLoop ==
    /\ pl.pc = "backoff"
    /\ pl' = [pl EXCEPT !.pc = "stopped"]
    /\ UNCHANGED <<folder, saved, req, pg, disc, bt, ledgerVars, readyVars, runVars>>

\* 'time.sleep(poll_interval)' of the except clause
Backoff ==
    /\ pl.pc = "backoff"
    /\ pl' = [pl EXCEPT !.pc = "top", !.slept = PollInterval, !.via = "backoff"]
    /\ UNCHANGED <<folder, saved, req, pg, disc, bt, ledgerVars, readyVars, runVars>>

InitPoll ==
    /\ InitCoreIdle
    /\ IdlePoll
    /\ IdleVault /\ IdleRequest /\ IdlePaging /\ IdleDiscovery /\ IdleBatch

NextPoll ==
    \/ StartPolling
    \/ Trigger
    \/ Shutdown
    \/ LoopTest
    \/ ClearTest
    \/ Clear
    \/ ManualRun
    \/ RegularRun
    \/ \E raised \in BOOLEAN : SetPollTime(raised)
    \/ WaitTick
    \/ Backoff

SpecPoll == InitPoll /\ [][NextPoll]_vars

\* the steps of the loop itself: the program goes on running, every sleep ends
LoopStep ==
    \/ LoopTest
    \/ ClearTest
    \/ Clear
    \/ ManualRun
    \/ RegularRun
    \/ \E raised \in BOOLEAN : SetPollTime(raised)
    \/ WaitTick
    \/ Backoff

SpecPollFair == InitPoll /\ [][NextPoll]_vars /\ WF_vars(LoopStep)

(***************************************************************************)
(* The service: run_polling_loop with the steps of its process_meetings    *)
(* calls, on regular polls (no sync-now trigger is raised).  The loop is   *)
(* at "regular" for the whole of a call; runs counts the calls begun,      *)
(* manual + regular the calls that returned.                               *)
(***************************************************************************)
\* the loop is about to call process_meetings
RunPending == pl.pc \in {"manual", "regular"} /\ runs = pl.manual + pl.regular

\* the process_meetings call of this pass has returned
RunOver == pc = "idle" /\ runs = pl.manual + pl.regular + 1

\* the steps of the program, the signals left out
ServiceStep ==
    \/ LoopTest
    \/ RunPending /\ DiscoverFails
    \/ \E c \in FaultCandidateLists : RunPending /\ StartRun("normal", c)
    \/ \E o \in UNION {GetMeetingOutcomes(id) : id \in RunIds} : Gate(o, "ok", "ok")
    \/ \E out \in CreateOutcomes : CreateNote(out)
    \/ Mark("ok", "ok")
    \/ Summarize
    \/ RunOver /\ RegularRun
    \/ \E raised \in BOOLEAN : SetPollTime(raised)
    \/ WaitTick
    \/ Backoff

NextService ==
    \/ StartPolling
    \/ Shutdown
    \/ ServiceStep

\* the program goes on running: every call returns and every sleep ends
SpecService == Init /\ [][NextService]_vars /\ WF_vars(ServiceStep)


(***************************************************************************)
(* get_meeting (src/src/fireflies_client.py 509-525) over                  *)
(* get_transcript_details (265-304), and the first loop of a run fed by    *)
(* it.  A request result is what _make_request produces for the detail     *)
(* query: a response, a FirefliesAPIError with its error_code, or another  *)
(* exception.                                                              *)
(***************************************************************************)
\* the error codes a FirefliesAPIError of _make_request carries; "none" is the
\* error_code None of an error raised after the last attempt
ApiErrorCodes == {"object_not_found", "too_many_requests", "forbidden",
                  "invalid_arguments", "none"}

\* transcript is what response['data']['transcript'] is: a dict (detail), null,
\* missing, an empty value, a non-empty value that is no dict, or unreachable
\* because response['data'] is null
RequestResult(kind, code, transcript, detail) ==
    [kind |-> kind, code |-> code, transcript |-> transcript, detail |-> detail]

RequestResults(id) ==
    {RequestResult("response", "", "dict", o) :
        o \in {d \in GetMeetingOutcomes(id) : d.kind = "detail"}}
    \cup {RequestResult("response", "", t, NoOutcome) :
            t \in {"null", "missing", "empty", "nondict", "data_null"}}
    \cup {RequestResult("FirefliesAPIError", c, "none", NoOutcome) : c \in ApiErrorCodes}
    \cup {RequestResult("Exception", "", "none", NoOutcome)}

\* how a call ended: kind is "None", "detail" or "raise"
Called(kind, exc, code, detail) ==
    [kind |-> kind, exc |-> exc, code |-> code, detail |-> detail]

\* get_transcript_details: 'if not transcript' raises object_not_found; a null
\* data or a transcript without get raises AttributeError
get_transcript_details(r) ==
    IF r.kind # "response" THEN Called("raise", r.kind, r.code, NoOutcome)
    ELSE IF r.transcript = "data_null" THEN Called("raise", "Exception", "", NoOutcome)
    ELSE IF r.transcript \in {"null", "missing", "empty"}
         THEN Called("raise", "FirefliesAPIError", "object_not_found", NoOutcome)
    ELSE IF r.transcript = "nondict" THEN Called("raise", "Exception", "", NoOutcome)
    ELSE Called("detail", "", "", r.detail)

\* get_meeting that answers None to every FirefliesAPIError
get_meeting_none_on_api_error(r) ==
    LET d == get_transcript_details(r)
    IN  IF d.kind = "raise" /\ d.exc = "FirefliesAPIError"
        THEN Called("None", "", "", NoOutcome)
        ELSE d

\* get_meeting: None for error_code 'object_not_found', every other exception
\* goes on to the caller
get_meeting(r) ==
    LET d == get_transcript_details(r)
    IN  IF d.kind = "raise" /\ d.exc = "FirefliesAPIError" /\ d.code = "object_not_found"
        THEN Called("None", "", "", NoOutcome)
        ELSE d

\* the outcome of get_meeting as get_meeting_with_summary_check meets it
MeetingOutcome(c, id) ==
    CASE c.kind = "None" -> Outcome("none", id, "missing", "missing", "")
      [] c.kind = "raise" /\ c.exc = "FirefliesAPIError" ->
            Outcome("api_error", id, "missing", "missing", "")
      [] c.kind = "raise" -> Outcome("error", id, "missing", "missing", "")
      [] OTHER -> c.detail

\* the get_meeting call made for candidate ci of run number run
Asking(r, i, run) == [result |-> r, ci |-> i, run |-> run]

Asked == rq # NoOutcome /\ rq.ci = ci /\ rq.run = runs

\* the provider reports the meeting as not found or not accessible
NotFound(r) ==
    \/ r.kind = "response" /\ r.transcript \in {"null", "missing", "empty"}
    \/ r.kind = "FirefliesAPIError" /\ r.code = "object_not_found"

\* main.py 66 and 109 reach get_meeting for a candidate the Ledger does not hold
GetMeeting(r) ==
    /\ pc = "gate"
    /\ ci <= Len(cands)
    /\ cands[ci] \notin Persisted
    /\ ~Asked
    /\ r \in RequestResults(cands[ci])
    /\ rq' = Asking(r, ci, runs)
    /\ rs' = get_meeting(r)
    /\ UNCHANGED <<clientVars, ledgerVars, runVars>>

\* the pass of the first loop on the candidate whose get_meeting call was made
GateFetched == Asked /\ Gate(MeetingOutcome(rs, cands[ci]), "ok", "ok")

\* the pass of the first loop on a candidate the Ledger holds: no call is made
GateKnown ==
    /\ pc = "gate"
    /\ ci <= Len(cands)
    /\ cands[ci] \in Persisted
    /\ Gate(Outcome("none", cands[ci], "missing", "missing", ""), "ok", "ok")

NextAbsent ==
    \/ \E m \in Modes, c \in RetryCandidateLists : StartRun(m, c)
    \/ \E r \in UNION {RequestResults(id) : id \in RunIds} : GetMeeting(r)
    \/ GateFetched
    \/ GateKnown
    \/ \E out \in CreateOutcomes : CreateNote(out)
    \/ Mark("ok", "ok")
    \/ Summarize

SpecAbsent == Init /\ [][NextAbsent]_vars


(***************************************************************************)
(* sync_historical_meetings (src/sync_historical.py).  The script is a     *)
(* process of its own: its locals are held in the variables of a run       *)
(* (cands is all_transcripts, meetings is unprocessed, mode tells whether  *)
(* dry_run was given), its pc values are its own.  A transcript of the     *)
(* listing is its id, "" when it has none.                                 *)
(***************************************************************************)
HistLists == {<<>>, <<"m1">>, <<"m1", "m2">>, <<"m2", "", "m1">>}

\* the script runs without the main loop's objects and requests
HistFrame ==
    UNCHANGED <<clientVars, readyVars, instances, ret, acked, ackedMeta, restarts,
                ackedAt, tracking>>

\* the script returns False: the too_many_requests branch or the outer except
HistFailed ==
    /\ pc' = "idle"
    /\ last' = Summary("failed", 0, 0, 0, FALSE)

\* a script for which dry_run is never set
DryRunNever(dry_run) == FALSE

\* sync_historical.py 64: if dry_run:
DryRunReturns(dry_run) == dry_run

\* sync_historical.py 26-41: the components are made and get_stats is read
HistStart(dry_run, rd, wr) ==
    /\ pc = "idle"
    /\ runs < MaxRuns
    /\ runs' = runs + 1
    /\ mode' = IF dry_run THEN "dry_run" ELSE "sync"
    /\ cands' = <<>>
    /\ ci' = 1
    /\ meetings' = <<>>
    /\ mj' = 1
    /\ processed_count' = 0
    /\ error_count' = 0
    /\ skipped_count' = 0
    /\ glog' = <<>>
    /\ clog' = <<>>
    /\ LET S == get_stats(StateManager_init(file, wr), rd, wr)
       IN  /\ file' = S.file
           /\ IF S.raised THEN HistFailed
              ELSE pc' = "h_list" /\ last' = NoSummary
    /\ UNCHANGED vault
    /\ HistFrame

\* sync_historical.py 43-45: get_all_transcripts_since returned c
HistList(c) ==
    /\ pc = "h_list"
    /\ cands' = c
    /\ pc' = "h_filter"
    /\ UNCHANGED <<file, vault, mode, ci, meetings, mj, processed_count, error_count,
                   skipped_count, glog, clog, runs, last>>
    /\ HistFrame

\* sync_historical.py 46-52 and 142-144: get_all_transcripts_since raised
HistListFails ==
    /\ pc = "h_list"
    /\ HistFailed
    /\ UNCHANGED <<file, vault, mode, cands, ci, meetings, mj, processed_count,
                   error_count, skipped_count, glog, clog, runs>>
    /\ HistFrame

\* sync_historical.py 57-60: one pass of the filter loop
HistFilter(rd, wr) ==
    /\ pc = "h_filter"
    /\ ci <= Len(cands)
    /\ LET meeting_id == cands[ci]
           P == is_processed(file, meeting_id, rd, wr)
       IN  IF meeting_id = ""
           THEN UNCHANGED <<file, meetings, pc, last>>
           ELSE /\ file' = P.file
                /\ IF P.raised
                   THEN HistFailed /\ UNCHANGED meetings
                   ELSE /\ meetings' = IF P.value = "False"
                                       THEN Append(meetings, [id |-> meeting_id, src |-> ci])
                                       ELSE meetings
                        /\ UNCHANGED <<pc, last>>
    /\ ci' = ci + 1
    /\ UNCHANGED <<vault, mode, cands, mj, processed_count, error_count, skipped_count,
                   glog, clog, runs>>
    /\ HistFrame

\* sync_historical.py 64-79: the dry run reports and returns True
HistDryRun ==
    /\ pc = "h_filter"
    /\ ci > Len(cands)
    /\ DryRunReturns(mode = "dry_run")
    /\ pc' = "idle"
    /\ last' = Summary("dry_run", 0, 0, 0, FALSE)
    /\ UNCHANGED <<file, vault, mode, cands, ci, meetings, mj, processed_count,
                   error_count, skipped_count, glog, clog, runs>>
    /\ HistFrame

\* sync_historical.py 96-121: the loop body on unprocessed[mj]; r is the result
\* of the detail request, out what create_meeting_note meets
HistProcess(r, out, rd, wr) ==
    /\ pc = "h_filter"
    /\ ci > Len(cands)
    /\ ~DryRunReturns(mode = "dry_run")
    /\ mj <= Len(meetings)
    /\ r \in RequestResults(meetings[mj].id)
    /\ LET meeting_id == meetings[mj].id
           d == get_transcript_details(r)
           ready == d.kind = "detail" /\ is_summary_ready(d.detail)
           \* the not-ready branch reads meeting_info.get(...)
           logs == d.kind = "detail" /\ d.detail.info \in {"missing", "dict"}
           file_path == IF ready THEN create_meeting_note(out) ELSE NoneValue
           R == mark_processed(file, meeting_id, rd, wr)
           marks == ready /\ file_path # NoneValue
       IN  /\ glog' = Append(glog, GateEntry(meeting_id, FALSE, TRUE,
                                 IF d.kind = "detail" THEN SeenClass(d.detail)
                                 ELSE "nodetail", ready, 0, 0))
           /\ clog' = IF ready
                      THEN Append(clog, CreateEntry(meeting_id, meetings[mj].src,
                                                    file_path # NoneValue, marks))
                      ELSE clog
           /\ vault' = IF marks THEN [vault EXCEPT ![meeting_id] = @ + 1] ELSE vault
           /\ file' = IF marks THEN R.file ELSE file
           /\ processed_count' = IF marks /\ ~R.raised THEN processed_count + 1
                                 ELSE processed_count
           /\ skipped_count' = IF ~ready /\ logs THEN skipped_count + 1 ELSE skipped_count
           /\ error_count' = IF \/ d.kind = "raise"
                                \/ d.kind = "detail" /\ ~ready /\ ~logs
                                \/ marks /\ R.raised
                             THEN error_count + 1 ELSE error_count
    /\ mj' = mj + 1
    /\ UNCHANGED <<pc, mode, cands, ci, meetings, runs, last>>
    /\ HistFrame

\* sync_historical.py 131-140: the sync reports and returns True
HistEnd ==
    /\ pc = "h_filter"
    /\ ci > Len(cands)
    /\ ~DryRunReturns(mode = "dry_run")
    /\ mj > Len(meetings)
    /\ pc' = "idle"
    /\ last' = Summary("completed", processed_count, error_count, skipped_count, FALSE)
    /\ UNCHANGED <<file, vault, mode, cands, ci, meetings, mj, processed_count,
                   error_count, skipped_count, glog, clog, runs>>
    /\ HistFrame

\* the script starts on whatever ledger file is there; none at first
InitHist == InitLedgerWith(FALSE) /\ InitReadyIdle /\ InitClientIdle

NextHist ==
    \/ \E dry_run \in BOOLEAN, rd \in ReadOutcomes, wr \in WriteOutcomes :
          HistStart(dry_run, rd, wr)
    \/ \E c \in HistLists : HistList(c)
    \/ HistListFails
    \/ \E rd \in ReadOutcomes, wr \in WriteOutcomes : HistFilter(rd, wr)
    \/ HistDryRun
    \/ \E r \in UNION {RequestResults(id) : id \in RunIds}, out \in CreateOutcomes,
          rd \in ReadOutcomes, wr \in WriteOutcomes : HistProcess(r, out, rd, wr)
    \/ HistEnd

SpecHist == InitHist /\ [][NextHist]_vars


(***************************************************************************)
(* Claims about process_meetings.                                          *)
(***************************************************************************)
\* C1: at most one note per meeting.  Over any sequence of runs, in either
\* mode and with any candidate lists, the vault never holds more than one
\* note written for the same meeting id.
C1_AtMostOneNote == \A id \in IDS : vault[id] <= 1

\* the ids of the run's create_meeting_note calls
CreatedIds == {clog[k].id : k \in DOMAIN clog}

C3_MarkAfterWrite ==
    /\ \A id \in Persisted : vault[id] >= 1
    /\ \A k \in DOMAIN clog : clog[k].marked => clog[k].ok
    /\ pc = "mark" => (clog[Len(clog)].ok /\ vault[meetings[mj].id] >= 1)

\* a run was killed after it had marked one meeting and after the note write
\* of another meeting had failed: the first is in the Ledger, the second not
C3_Witness ==
    /\ last.status = "crashed"
    /\ Persisted # {}
    /\ \E k \in DOMAIN clog : ~clog[k].ok /\ clog[k].id \notin Persisted

NoteFailures == {k \in DOMAIN clog : ~clog[k].ok}

\* C4: batch isolation.  When a run of two or more ready candidates has
\* completed and the render/persist step of exactly one of them failed, every
\* other one has its note and is in the Ledger, and the run reports exactly
\* one error.
C4_BatchIsolation ==
    (/\ pc = "idle"
     /\ last.status = "completed"
     /\ Len(clog) >= 2
     /\ Len(clog) = Len(meetings)
     /\ Cardinality(NoteFailures) = 1)
    => /\ \A k \in DOMAIN clog \ NoteFailures :
              clog[k].marked /\ clog[k].id \in Persisted /\ vault[clog[k].id] >= 1
       /\ last.errors = 1

Sum(f, S) ==
    LET RECURSIVE Go(_)
        Go(T) == IF T = {} THEN 0
                 ELSE LET x == CHOOSE y \in T : TRUE IN f[x] + Go(T \ {x})
    IN Go(S)

\* C6: a candidate whose fetched detail has a readiness status other than
\* 'processed' is not queued, no create_meeting_note call (and so no
\* mark_processed call) of the run is made for it, and examining it raises
\* the skipped count by exactly 1 and the error count by 0; the skipped count
\* is the number of fetched candidates that were not queued.
C6_NotReadySkipped ==
    /\ \A k \in DOMAIN glog :
          glog[k].seen = "notready" =>
              /\ ~glog[k].queued
              /\ glog[k].dskip = 1
              /\ glog[k].derr = 0
              /\ \A j \in DOMAIN clog : clog[j].src # k
    /\ skipped_count = Sum([k \in DOMAIN glog |-> glog[k].dskip], DOMAIN glog)
    /\ skipped_count = Cardinality({k \in DOMAIN glog : glog[k].fetched /\ ~glog[k].queued})

\* a completed run that skipped one not-ready candidate, reported skipped = 1
\* and created and marked the note of another candidate
C6_Witness ==
    /\ pc = "idle"
    /\ last.status = "completed"
    /\ last.skipped = 1
    /\ \E k \in DOMAIN glog : glog[k].seen = "notready"
    /\ \E k \in DOMAIN clog : clog[k].ok /\ clog[k].marked

(***************************************************************************)
(* Claims about the Ledger.                                                *)
(***************************************************************************)
MarkOps == {"mark_processed", "mark_multiple_processed"}
ReadOps == {"is_processed", "get_metadata", "get_last_sync_time", "get_stats"}

\* the ids the last call was asked to mark
MarkedByCall ==
    IF ret.op = "mark_processed" THEN {ret.arg}
    ELSE IF ret.op = "mark_multiple_processed" THEN ret.ids ELSE {}

\* C7: mark_processed is idempotent.  The persisted list never holds an id
\* twice, and right after any mark_processed(id) or mark_multiple_processed
\* call containing id (a first call or a repeated one) the list holds id
\* exactly once and is_processed(id) answers true.
C7_MarkIdempotent ==
    /\ \A id \in IDS : Count(file.data.processed_meetings, id) <= 1
    /\ \A id \in MarkedByCall :
          /\ Count(file.data.processed_meetings, id) = 1
          /\ is_processed(file, id, "ok", "ok").value = "True"

\* a mark_processed(id) call made when id was already in the persisted list
C7_Witness ==
    /\ ret.op = "mark_processed"
    /\ ret.present
    /\ Len(file.data.processed_meetings) >= 2

\* C8: ledger membership is monotonic.  No call other than clear_state, made
\* with whatever read or write outcome and on whatever file, removes an id
\* from the persisted processed set.
C8_Monotonic ==
    [][ret'.op \in MarkOps \cup ReadOps \cup {"set_metadata"}
          => Persisted \subseteq Persisted']_vars

\* the ledger file was absent, unreadable or corrupt when the last call read it
MetBadFile ==
    \/ ret.pre \in {"absent", "badjson", "undecodable", "nonobject"}
    \/ ret.rd = "ioerror"

\* C9: on an absent, unreadable or corrupt file is_processed answers false and
\* get_stats reports total_processed = 0, neither raises, and an absent file
\* is created as the empty state when the write goes through.
C9_FailOpen ==
    /\ (ret.op = "is_processed" /\ MetBadFile) => (~ret.raised /\ ret.value = "False")
    /\ (ret.op = "get_stats" /\ MetBadFile) => (~ret.raised /\ ret.n = 0)
    /\ (ret.op \in ReadOps /\ ret.pre = "absent" /\ ret.wr = "ok") => file = EmptyFile

\* C10: durability and freshness.  Every is_processed(id), on whichever object
\* and before or after a restart, answers true exactly for the ids whose mark
\* call has returned (and that no clear_state removed since), and every
\* get_metadata(k) answers the value of the last set_metadata(k, v) that
\* returned.
C10_DurableFresh ==
    /\ ret.op = "is_processed" => ret.value = BoolStr(ret.arg \in acked)
    /\ ret.op = "get_metadata" =>
          ret.value = (IF ackedMeta[ret.arg] = Unset THEN NoneValue
                       ELSE ackedMeta[ret.arg])

\* is_processed answers true, after a restart, for an id that was marked
\* before the restart, and the metadata set before it is still there
C10_Witness ==
    /\ ret.op = "is_processed"
    /\ ret.value = "True"
    /\ ackedAt[ret.arg] >= 0
    /\ ackedAt[ret.arg] < restarts
    /\ \E k \in Keys : ackedMeta[k] # Unset /\ file.data.metadata[k] = ackedMeta[k]

(***************************************************************************)
(* Claims about the readiness gate.                                        *)
(***************************************************************************)
\* C5: readiness is fail-closed.  get_meeting_with_summary_check never raises,
\* and it returns the detail (of the meeting asked for) if and only if the
\* fetched detail's meeting_info.summary_status is exactly 'processed'; for a
\* missing, null or malformed field and for any other value it returns None.
C5_FailClosed ==
    rs # Pending =>
        /\ rs.kind \in {"detail", "none"}
        /\ rs.kind = "detail" <=> ExactlyProcessed(rq)
        /\ rs.id = rq.id

\* None was returned for a detail whose meeting_info is null
C5_Witness ==
    /\ rs = Answer("none", rq.id)
    /\ rq.kind = "detail"
    /\ rq.info = "null"


(***************************************************************************)
(* Claims about the Note Writer.                                           *)
(***************************************************************************)
\* C11: get_unique_filename never returns a path that exists and never fails:
\* it returns the base path (version 0) when that is unused, otherwise the
\* name with suffix ' (n)' for the smallest n >= 1 whose name is unused,
\* whatever the gaps; with base, (2) and (4) present it returns (1).
C11_SmallestUnused ==
    saved.op = "get_unique_filename" =>
        /\ ~saved.raised
        /\ saved.path >= 0
        /\ saved.path \notin DOMAIN saved.pre
        /\ 0 \notin DOMAIN saved.pre => saved.path = 0
        /\ 0 \in DOMAIN saved.pre =>
              /\ saved.path >= 1
              /\ \A k \in 1..(saved.path - 1) : k \in DOMAIN saved.pre
        /\ DOMAIN saved.pre = {0, 2, 4} => saved.path = 1

\* base, (2) and (4) are present and (1) was returned
C11_Witness ==
    /\ saved.op = "get_unique_filename"
    /\ DOMAIN saved.pre = {0, 2, 4}
    /\ saved.path = 1

\* C12: a save_meeting call that returns adds exactly one new file to the
\* folder, holding the content given, leaves every file that existed before
\* with its content, and returns the path of the file it wrote.
C12_OneNewFile ==
    (saved.op = "save_meeting" /\ ~saved.raised) =>
        /\ saved.path \notin DOMAIN saved.pre
        /\ DOMAIN folder = DOMAIN saved.pre \cup {saved.path}
        /\ folder[saved.path] = saved.content
        /\ \A k \in DOMAIN saved.pre : folder[k] = saved.pre[k]

\* the third successive save wrote (2) beside the base and (1), which keep
\* their own, different content
C12_Witness ==
    /\ saved.op = "save_meeting"
    /\ ~saved.raised
    /\ saved.path = 2
    /\ DOMAIN folder = {0, 1, 2}
    /\ folder[0] = "c1"
    /\ folder[1] = "c2"
    /\ folder[2] = "c1"


(***************************************************************************)
(* Claims about listing.                                                   *)
(***************************************************************************)
\* C13: get_all_transcripts_since stops at the first page that is empty or
\* shorter than the capped batch size and makes no request after it: every
\* page before the last is full, the call is over as soon as a page is not,
\* and it returns the items of all the pages; pages of 50, 50 and 13 items at
\* batch size 50 take exactly 3 requests and give exactly 113 items.
C13_StopsAtShortPage ==
    /\ \A k \in 1..(Len(pg.sizes) - 1) : pg.sizes[k] = pg.batch_size
    /\ pg.pc \in {"fetch", "raised"} =>
          \A k \in 1..Len(pg.sizes) : pg.sizes[k] = pg.batch_size
    /\ pg.pc = "done" =>
          /\ pg.sizes # <<>>
          /\ pg.sizes[Len(pg.sizes)] < pg.batch_size
          /\ pg.requests = Len(pg.sizes)
          /\ pg.total = SeqSum(pg.sizes)
    /\ (pg.batch_size = 50 /\ pg.sizes = <<50, 50, 13>>) =>
          /\ pg.pc = "done"
          /\ pg.requests = 3
          /\ pg.total = 113

\* pages of 50, 50 and 13 items: 3 requests, 113 items
C13_Witness ==
    /\ pg.pc = "done"
    /\ pg.batch_size = 50
    /\ pg.sizes = <<50, 50, 13>>
    /\ pg.requests = 3
    /\ pg.total = 113

\* C14: no lost meetings.  When the gate loop of a normal-mode run has gone
\* through its candidates, every meeting the provider holds inside the
\* lookback window and that is not in the Ledger has been considered (detail
\* fetched and gated), however many the window contains.
C14_NoLostMeetings ==
    disc.pc = "done" => disc.considered = disc.held


(***************************************************************************)
(* Claims about _make_request.                                             *)
(***************************************************************************)
\* C15: every _make_request call makes at most max_retries HTTP attempts and
\* ends with a response or a FirefliesAPIError, whatever rate-limit,
\* server-error and transport-error replies the provider gives.
C15_BoundedAttempts ==
    /\ req.posts <= req.max_retries
    /\ req.pc = "send" => req.posts = req.attempt
    /\ req.pc = "done" => req.result \in {"response", "FirefliesAPIError"}

\* C16: after an HTTP 429 reply that is not the last attempt, _make_request
\* sleeps the Retry-After duration when the header is present, and otherwise
\* an exponential backoff of 1 unit doubled with each attempt.
C16_RateLimitWait ==
    \A k \in DOMAIN req.sleeps :
        LET s == req.sleeps[k]
        IN  s.after = "rate_limit" =>
                s.dur = IF s.header # Absent THEN int(s.header) ELSE Pow2(s.attempt)

\* C17: an HTTP 403 reply is never retried.  The call ends on it with a
\* FirefliesAPIError whose error_code is 'forbidden', having made no HTTP
\* attempt and no sleep after the attempt that received it: one attempt and
\* no sleep at all when the 403 answers the first attempt.
C17_ForbiddenNotRetried ==
    req.reply.kind = "forbidden" =>
        /\ req.pc = "done"
        /\ req.result = "FirefliesAPIError"
        /\ req.error_code = "forbidden"
        /\ req.posts = req.attempt + 1
        /\ \A k \in DOMAIN req.sleeps : req.sleeps[k].attempt < req.attempt
        /\ req.attempt = 0 => (req.posts = 1 /\ req.sleeps = <<>>)

\* a 403 received at the second attempt, after a server error and its backoff
C17_Witness ==
    /\ req.reply.kind = "forbidden"
    /\ req.pc = "done"
    /\ req.error_code = "forbidden"
    /\ req.posts = 2
    /\ Len(req.sleeps) = 1
    /\ req.sleeps[1].after = "server_error"


(***************************************************************************)
(* Claims about get_transcript_details_batch.                              *)
(***************************************************************************)
\* C18: at no point of get_transcript_details_batch are more than 5 detail
\* requests in flight, for any number of ids and any order of completions.
C18_AtMostFiveInFlight ==
    InFlight(bt.st) <= 5

\* five requests are in flight while a sixth task waits for the semaphore
C18_Witness ==
    /\ bt.pc = "gather"
    /\ InFlight(bt.st) = 5
    /\ \E i \in DOMAIN bt.st : bt.st[i] = "waiting"

C20_Coalescing ==
    /\ pl.flag <=> pl.pending > 0
    /\ pl.consumed + (IF pl.flag THEN 1 ELSE 0) = pl.groups
    /\ pl.manual + (IF pl.pc = "manual" THEN 1 ELSE 0) = pl.consumed

\* three triggers were raised before the loop consumed the flag: one run
C20_Witness ==
    /\ pl.triggers = 3
    /\ pl.groups = 1
    /\ pl.consumed = 1
    /\ pl.manual = 1
    /\ ~pl.flag


(***************************************************************************)
(* Claims about the inter-poll sleep and the error pause of                *)
(* run_polling_loop.  The inter-poll sleep is the one-second wait loop     *)
(* (main.py 219-223), the error pause the sleep of the except clause       *)
(* (main.py 228-231).                                                      *)
(***************************************************************************)
\* C21: during the inter-poll sleep the loop checks the shutdown flag at every
\* 1-second tick.  Once shutdown is requested the wait loop sleeps no further
\* second: its next tick ends the sleep, the while test then leaves the loop,
\* and no run starts on the way; the loop does stop.
C21_ShutdownEndsSleep ==
    /\ [][(pl.shutdown /\ pl.pc \in {"wait", "top"}) =>
            /\ pl'.manual = pl.manual
            /\ pl'.regular = pl.regular
            /\ pl'.slept = pl.slept
            /\ pl'.pc \in {pl.pc, IF pl.pc = "wait" THEN "top" ELSE "stopped"}]_vars
    /\ (pl.shutdown /\ pl.pc = "wait") ~> (pl.pc = "stopped")

\* shutdown was requested during the inter-poll sleep, with a second still to
\* wait, and the loop has stopped
C21_Witness ==
    /\ pl.pc = "stopped"
    /\ pl.shut_at = "wait"
    /\ pl.slept < PollInterval
    /\ pl.manual + pl.regular = 1

\* C22: a sync-now trigger raised during the inter-poll sleep ends the sleep
\* at the next 1-second tick: with the flag set the wait loop sleeps no
\* further second, and unless shutdown is requested the loop then clears the
\* flag and starts a signal-triggered run.
C22_TriggerEndsSleep ==
    /\ [][(pl.flag /\ pl.pc = "wait") =>
            /\ pl'.slept = pl.slept
            /\ pl'.pc \in {"wait", "top"}]_vars
    /\ [][(pl.flag /\ ~pl.shutdown /\ pl.pc = "top") =>
            pl'.pc \in {"top", "is_set"}]_vars
    /\ (pl.flag /\ pl.pc = "wait") ~> (pl.shutdown \/ (pl.pc = "manual" /\ pl.pending = 0))

\* a trigger raised during the inter-poll sleep, before its last second, has
\* been cleared and its run is starting
C22_Witness ==
    /\ pl.pc = "manual"
    /\ pl.trig_at = "wait"
    /\ pl.slept < PollInterval
    /\ ~pl.flag
    /\ ~pl.shutdown

\* C23: continuous mode never exits on an error.  After an exception in the
\* loop body the loop sleeps one full polling interval and is back at the
\* while test; the loop is left only after shutdown has been requested.
C23_NeverExitsOnError ==
    /\ [](pl.pc = "stopped" => pl.shutdown)
    /\ []((pl.pc = "top" /\ pl.via = "backoff") => pl.slept = PollInterval)
    /\ [][pl.pc = "backoff" => pl'.pc \in {"backoff", "top"}]_vars
    /\ (pl.pc = "backoff") ~> (pl.pc = "top")

\* set_metadata raised after a run, the loop paused a full interval and ran
\* again
C23_Witness ==
    /\ pl.via = "backoff"
    /\ pl.pc = "meta"
    /\ pl.regular = 2
    /\ ~pl.shutdown

\* C30: a sync-now trigger that arrives while a run is in progress is not
\* lost.  The flag is reset by the clear of clear_sync_request only, so it
\* stays set through the run; the inter-poll sleep that follows sleeps no
\* second; and unless shutdown is requested the loop comes to consume the
\* flag for one more run.
C30_TriggerDuringRun ==
    /\ [][(pl.flag /\ ~pl'.flag) => pl.pc = "clear"]_vars
    /\ []((pl.pc = "wait" /\ pl.flag /\ pl.trig_at \in {"manual", "regular"}) =>
             pl.slept = 0)
    /\ (pl.flag /\ pl.pc \in {"manual", "regular"}) ~> (pl.shutdown \/ pl.pc = "clear")
    /\ (pl.pc = "clear") ~> (pl.pc = "manual")

\* the trigger came during a regular run; its own run followed without a
\* second of sleep
C30_Witness ==
    /\ pl.trig_at = "regular"
    /\ pl.pc = "manual"
    /\ pl.via = "wait"
    /\ pl.slept = 0
    /\ pl.regular = 1
    /\ pl.consumed = 1


(***************************************************************************)
(* Claims about the batch mark, the metadata store and the readers of the  *)
(* Ledger.                                                                 *)
(***************************************************************************)
\* C27: mark_multiple_processed(ids) leaves the persisted processed set equal
\* to the union of the previous set and ids, with no id twice; it writes the
\* file once for the whole batch when some id is new, and not at all when
\* every id was already present; and a second call with the same ids changes
\* nothing and writes nothing.
C27_BatchMark ==
    [][ret'.op = "mark_multiple_processed" =>
          LET before == Range(file.data.processed_meetings)
              R == mark_multiple_processed(file, ret'.ids, file'.data.processed_meetings,
                                           ret'.rd, ret'.wr)
              again == mark_multiple_processed(file', ret'.ids,
                                               file'.data.processed_meetings, "ok", "ok")
          IN  /\ R.file = file'
              /\ ~R.raised
              /\ Range(file'.data.processed_meetings) = before \cup ret'.ids
              /\ NoDup(file'.data.processed_meetings)
              /\ R.writes = IF ret'.ids \subseteq before THEN 0 ELSE 1
              /\ ret'.ids \subseteq before => file' = file
              /\ again.file = file'
              /\ again.writes = 0
              /\ ~again.raised]_vars

\* a batch of two ids was marked on a list that holds a third id as well
C27_Witness ==
    /\ ret.op = "mark_multiple_processed"
    /\ Cardinality(ret.ids) = 2
    /\ ~ret.raised
    /\ Cardinality(Persisted) = 3
    /\ Len(file.data.processed_meetings) = 3

Held(f) == IF f.kind = "ok" THEN f.data ELSE EmptyState

\* C29: is_processed, get_metadata, get_last_sync_time and get_stats never
\* change the persisted state: the processed list, the metadata map and
\* last_sync are after the call what they were before it, whatever the file
\* and whatever the outcome of the read (and of the write made when the file
\* is absent).
C29_ReadersChangeNothing ==
    [][ret'.op \in {"is_processed", "get_metadata", "get_last_sync_time", "get_stats"} =>
          Held(file') = Held(file)]_vars

\* get_stats answered on a file that holds two ids and a metadata value
C29_Witness ==
    /\ ret.op = "get_stats"
    /\ ~ret.raised
    /\ ret.n = 2
    /\ file.kind = "ok"
    /\ file.data.metadata["k"] # Unset
    /\ file.data.last_sync = "ts"


LoopErrors ==
    Sum([k \in DOMAIN glog |-> glog[k].derr], DOMAIN glog)
    + Cardinality({k \in DOMAIN clog : clog[k].marked}) - processed_count

\* C25: process_meetings never raises.  A run whose discovery fails returns 0;
\* every other run goes through both loops whatever fails in them and returns
\* its processed count, which is the number of mark_processed calls that
\* returned; and at every moment each id in the Ledger has a note in the
\* vault.
C25_NeverRaises ==
    /\ last.status # "raised"
    /\ last.status = "aborted" => (last.processed = 0 /\ pc = "idle")
    /\ last.status = "completed" =>
          /\ pc = "idle"
          /\ ci = Len(cands) + 1
          /\ mj = Len(meetings) + 1
          /\ last.processed = processed_count
          /\ last.errors = LoopErrors
    /\ processed_count <= Cardinality({k \in DOMAIN clog : clog[k].marked})
    /\ \A id \in Persisted : vault[id] >= 1

\* a run completed although the Ledger raised in both loops: a note was
\* written, its mark raised, and the run returned 0
C25_Witness ==
    /\ last.status = "completed"
    /\ last.processed = 0
    /\ last.errors = 2
    /\ \E k \in DOMAIN glog : glog[k].derr = 1
    /\ \E k \in DOMAIN clog : clog[k].ok /\ clog[k].marked

\* C26: at the end of a run the summary notification is requested if and only
\* if the processed count or the error count is above 0; a run that only
\* skipped not-ready or already-synced candidates, and a run whose discovery
\* failed, request none.
C26_SummaryNotification ==
    /\ last.status = "completed" =>
          (last.notified <=> (last.processed > 0 \/ last.errors > 0))
    /\ (last.status = "completed" /\ last.processed = 0 /\ last.errors = 0) =>
          ~last.notified
    /\ last.status = "aborted" => ~last.notified

\* a run that processed nothing and counted an error requested the summary
C26_Witness ==
    /\ last.status = "completed"
    /\ last.processed = 0
    /\ last.errors = 1
    /\ last.skipped = 1
    /\ last.notified


(***************************************************************************)
(* Claims about shutdown.                                                  *)
(***************************************************************************)
\* C31: a shutdown requested while a run is in progress does not cancel it.
\* A note that has been written is marked all the same, the loop stays where
\* it is until process_meetings has returned, no further run is begun, and
\* the loop stops with that run completed.
C31_ShutdownDuringRun ==
    /\ [][(pl.shutdown /\ pc = "mark") =>
            \/ pc' = "mark"
            \/ /\ pc' = "persist"
               /\ clog'[Len(clog')].marked
               /\ meetings[mj].id \in Range(file'.data.processed_meetings)]_vars
    /\ [][(pl.shutdown /\ pc # "idle") => pl'.pc = pl.pc]_vars
    /\ [][(pl.shutdown /\ (pc # "idle" \/ ~RunPending)) => runs' = runs]_vars
    /\ (pl.shutdown /\ pc # "idle") ~>
          (pl.pc = "stopped" /\ pc = "idle" /\ last.status = "completed"
           /\ mj = Len(meetings) + 1)

\* shutdown came between the write of a note and its mark; the run went on to
\* a second note and the loop stopped after it
C31_Witness ==
    /\ pl.pc = "stopped"
    /\ pl.shut_run = "mark"
    /\ last.status = "completed"
    /\ last.processed = 2
    /\ runs = 1

\* C32: prompt shutdown in every sleeping state.  Once shutdown is requested,
\* a loop that is in the inter-poll sleep or in the sleep that follows an
\* exception sleeps at most one more second.
C32_PromptShutdown ==
    [][(pl.shutdown /\ pl.pc \in {"wait", "backoff"}) =>
          pl'.slept <= pl.slept + 1]_vars


(***************************************************************************)
(* Claims about the retries of _make_request.                              *)
(***************************************************************************)
\* C33: on transport-level errors _make_request retries with exponential
\* backoff.  The sleep that follows a failed attempt k (k = 1, 2, ...) lasts
\* 2^(k-1) units, no sleep follows the last attempt, and a call that ends on a
\* transport error has made max_retries attempts and max_retries - 1 sleeps
\* and raises FirefliesAPIError.
C33_TransportBackoff ==
    /\ \A k \in DOMAIN req.sleeps :
          LET s == req.sleeps[k]
          IN  /\ s.attempt = k - 1
              /\ s.attempt < req.max_retries - 1
              /\ s.after = "transport_error" => s.dur = 2^(k - 1)
    /\ (req.pc = "done" /\ req.reply.kind = "transport_error") =>
          /\ req.result = "FirefliesAPIError"
          /\ req.posts = req.max_retries
          /\ Len(req.sleeps) = req.max_retries - 1
    /\ (req.pc = "send" /\ req.reply.kind = "transport_error") =>
          /\ req.posts < req.max_retries
          /\ Len(req.sleeps) = req.posts

\* three attempts that all met a transport error: sleeps of 1 and 2, then the
\* FirefliesAPIError
C33_Witness ==
    /\ req.pc = "done"
    /\ req.max_retries = 3
    /\ req.posts = 3
    /\ req.result = "FirefliesAPIError"
    /\ Len(req.sleeps) = 2
    /\ \A k \in 1..2 : req.sleeps[k].after = "transport_error" /\ req.sleeps[k].dur = k
    /\ req.reply.kind = "transport_error"


\* C34: a _make_request call whose every attempt was answered HTTP 429 ends
\* with a FirefliesAPIError whose error_code is 'too_many_requests'; a call
\* that ends on a 403 carries 'forbidden', and one that ends on a transport
\* error carries neither.
C34_RateLimitErrorKind ==
    /\ (/\ req.pc = "done"
        /\ req.posts >= 1
        /\ req.reply.kind = "rate_limit"
        /\ \A k \in DOMAIN req.sleeps : req.sleeps[k].after = "rate_limit") =>
          /\ req.result = "FirefliesAPIError"
          /\ req.error_code = "too_many_requests"
    /\ (req.pc = "done" /\ req.reply.kind = "forbidden") => req.error_code = "forbidden"
    /\ (req.pc = "done" /\ req.reply.kind = "transport_error") =>
          req.error_code \notin {"too_many_requests", "forbidden"}


(***************************************************************************)
(* Claims about a ledger file that cannot be written.                      *)
(***************************************************************************)
\* C35: when the write of the ledger file fails (the open is refused or the
\* dump breaks off), mark_processed and set_metadata return without raising.
\* In a run the failed mark of a new id is not an error: the loop goes on to
\* the next meeting; the id is not in the persisted set at the next read, is_processed
\* answers false, and a candidate that is not in the persisted set is fetched
\* again when a run examines it.
C35_UnwritableLedger ==
    /\ [][\A rd \in ReadOutcomes, wr \in {"denied", "partial"} :
            LET id == meetings[mj].id
                R == mark_processed(file, id, rd, wr)
            IN  (Mark(rd, wr) /\ R.writes >= 1 /\ id \notin Persisted) =>
                    /\ ~R.raised
                    /\ error_count' = error_count
                    /\ mj' = mj + 1
                    /\ pc' = "persist"
                    /\ id \notin Persisted'
                    /\ is_processed(file', id, "ok", "ok").value = "False"]_vars
    /\ [][(pc = "gate" /\ glog' # glog /\ cands[ci] \notin Persisted) =>
            glog'[Len(glog')].fetched]_vars
    /\ [](\A key \in Keys, value \in Values, rd \in ReadOutcomes,
            wr \in {"denied", "partial"} :
            LET S == set_metadata(file, key, value, rd, wr)
            IN  S.writes >= 1 =>
                    /\ ~S.raised
                    /\ S.value = NoneValue
                    /\ S.file.kind # "ok" \/ S.file = file)

\* the second run fetches a meeting again whose note the first run wrote and
\* whose mark did not reach the file
C35_Witness ==
    /\ runs = 2
    /\ pc = "persist"
    /\ error_count = 0
    /\ file.kind = "ok"
    /\ \E k \in DOMAIN glog :
          /\ glog[k].fetched
          /\ glog[k].id \notin Persisted
          /\ vault[glog[k].id] >= 1
          /\ \A j \in DOMAIN clog : clog[j].id # glog[k].id


\* the pages received, one after the other in the order of the requests
RECURSIVE ConcatPages(_, _, _)
ConcatPages(skips, sizes, k) ==
    IF k > Len(sizes) THEN <<>>
    ELSE Page(skips[k], sizes[k]) \o ConcatPages(skips, sizes, k + 1)

\* C36: the provider's order is kept end to end.  request k of
\* get_all_transcripts_since is sent with skip = (k - 1) * batch size and the
\* list it builds is the concatenation of the pages in request order, which is
\* the provider's listing from its first item on without gap or repetition;
\* in a run of process_meetings the notes are created for the queued
\* candidates in the order in which the candidates were listed.
C36_ProviderOrder ==
    /\ \A k \in 1..Len(pg.skips) : pg.skips[k] = (k - 1) * pg.batch_size
    /\ pg.all_transcripts = ConcatPages(pg.skips, pg.sizes, 1)
    /\ Len(pg.all_transcripts) = pg.total
    /\ \A i \in 1..Len(pg.all_transcripts) : pg.all_transcripts[i] = i
    /\ \A k \in 1..Len(meetings) : cands[meetings[k].src] = meetings[k].id
    /\ \A j, k \in 1..Len(meetings) : j < k => meetings[j].src < meetings[k].src
    /\ Len(clog) <= Len(meetings)
    /\ \A k \in 1..Len(clog) :
           clog[k].id = meetings[k].id /\ clog[k].src = meetings[k].src

\* a listing of three pages is complete and a run has written the notes of
\* m2 and m1 in that order, as listed
C36_Witness ==
    /\ pg.pc = "done"
    /\ Len(pg.sizes) = 3
    /\ pg.total > 2 * pg.batch_size
    /\ pc = "idle"
    /\ Len(clog) = 2
    /\ clog[1].id = "m2" /\ clog[1].ok
    /\ clog[2].id = "m1" /\ clog[2].ok


\* C37: retry by omission.  A candidate that is fetched and found not ready,
\* whose fetch fails or whose note creation fails is not put into the Ledger
\* by that step; whenever a listed candidate that is not in the Ledger is
\* examined, in the first run or in any later one, it is fetched and gated
\* again, queued exactly when its summary status is 'processed'; and when its
\* note is then created it is marked, so that the run ends with it in the
\* Ledger and with its note in the vault.
C37_RetryByOmission ==
    [][/\ \A o \in UNION {GetMeetingOutcomes(id) : id \in RunIds} :
            (Gate(o, "ok", "ok") /\ cands[ci] \notin Persisted) =>
                /\ glog'[Len(glog')].fetched
                /\ glog'[Len(glog')].queued <=> ExactlyProcessed(o)
                /\ Persisted' = Persisted
       /\ \A out \in CreateOutcomes :
            CreateNote(out) =>
                /\ Persisted' = Persisted
                /\ out # "ok" => pc' = "persist" /\ mj' = mj + 1
                /\ out = "ok" => pc' = "mark" /\ vault'[meetings[mj].id] >= 1
       /\ Mark("ok", "ok") => Persisted' = Persisted \cup {meetings[mj].id}
       /\ Summarize =>
            \A k \in DOMAIN glog :
                (glog[k].queued /\ \E j \in DOMAIN clog : clog[j].src = k /\ clog[j].ok)
                    => glog[k].id \in Persisted']_vars

\* every run lists m1: the second run found m1 still outside the Ledger, as
\* the run before it had left it, fetched it, found it ready, and has ended
\* with its note written and m1 in the Ledger
C37_Witness ==
    /\ runs = 2
    /\ pc = "idle"
    /\ last.status = "completed"
    /\ vault["m1"] = 1
    /\ "m1" \in Persisted
    /\ \E k \in DOMAIN glog :
          /\ glog[k].id = "m1"
          /\ ~glog[k].known
          /\ glog[k].fetched
          /\ glog[k].queued


\* C38: not found is surfaced as absence.  get_meeting returns None when the
\* detail request ends with error code 'object_not_found' (reported by the
\* provider or raised for a missing transcript) and lets every other
\* FirefliesAPIError out with its error code; the run that meets such a
\* meeting counts it as skipped, does not queue it, writes no note for it
\* and does not mark it.
C38_NotFoundIsAbsence ==
    [][/\ \A r \in UNION {RequestResults(id) : id \in RunIds} :
            GetMeeting(r) =>
                /\ NotFound(r) => rs'.kind = "None"
                /\ (r.kind = "FirefliesAPIError" /\ r.code # "object_not_found") =>
                      /\ rs'.kind = "raise"
                      /\ rs'.exc = "FirefliesAPIError"
                      /\ rs'.code = r.code
       /\ (GateFetched /\ NotFound(rq.result)) =>
            /\ skipped_count' = skipped_count + 1
            /\ error_count' = error_count
            /\ meetings' = meetings
            /\ vault' = vault
            /\ Persisted' = Persisted
       /\ \A j \in DOMAIN glog' :
            ~glog'[j].queued => \A k \in DOMAIN clog' : clog'[k].src # j]_vars

\* a run has completed whose last fetched candidate the provider reported as
\* not found: it was skipped, has no note and is not in the Ledger, while
\* another candidate of the run was synced
C38_Witness ==
    /\ pc = "idle"
    /\ last.status = "completed"
    /\ rq # NoOutcome
    /\ rq.run = runs
    /\ NotFound(rq.result)
    /\ rs.kind = "None"
    /\ glog[rq.ci].fetched /\ glog[rq.ci].dskip = 1
    /\ last.skipped >= 1
    /\ vault[cands[rq.ci]] = 0
    /\ cands[rq.ci] \notin Persisted
    /\ \E k \in DOMAIN clog : clog[k].marked


\* C39: a dry run changes nothing.  From its start to its return, whatever
\* the listing holds and whatever the ledger file answers, a call of
\* sync_historical_meetings with dry_run=True fetches no meeting detail,
\* creates no note, and leaves the processed set of the Ledger as it was.
C39_DryRunChangesNothing ==
    [][mode' = "dry_run" =>
          /\ Persisted' = Persisted
          /\ vault' = vault
          /\ glog' = <<>>
          /\ clog' = <<>>]_vars

\* after a sync that marked m1, a dry run listed m1 and m2, found m2
\* unprocessed and returned: m2 has no note and the Ledger holds m1 alone
C39_Witness ==
    /\ runs = 2
    /\ mode = "dry_run"
    /\ pc = "idle"
    /\ last.status = "dry_run"
    /\ cands = <<"m1", "m2">>
    /\ Len(meetings) = 1 /\ meetings[1].id = "m2"
    /\ Persisted = {"m1"}
    /\ vault["m1"] = 1 /\ vault["m2"] = 0
    /\ glog = <<>>

====
